---- MODULE Spec2Model ----
(***************************************************************************)
(* The laser propagation pass of stepSim (the ray-tree scheduler), the     *)
(* scene query it drives and the stat upgrades that configure it.          *)
(*                                                                         *)
(* Geometry.  A ray lives on a track: the line (or, inside a gravity-well  *)
(* field, the bent path) it follows, parametrised by arc length.  A        *)
(* position is an integer number of 1/20 px, so that every length the      *)
(* source uses (EPS = 1.0, beam radius 5.4, 0.6, 0.75, 0.25, 6) is exact.  *)
(* d is +1 or -1 along the track.  An entity occupies the chord [lo, hi]   *)
(* of a track; a surface hit head-on reflects d to -d (reflect(d, n) with  *)
(* n parallel to d).                                                       *)
(***************************************************************************)
EXTENDS Integers, Sequences, FiniteSets, TLC

VARIABLES
    w,                \* the tick's inputs: stats, entities, emitter (read-only)
    blocks,           \* s.blocks: id -> hp of the live bodies
    queue,            \* the beam work queue (RayWork records)
    raysProcessed,
    segments,         \* s.laser.segments
    hitBlockId,       \* s.laser.hitBlockId (0 = null)
    cur,              \* the locals of the work item being traced: o, d, intensity, ...
    guard,            \* the outer for-loop counter
    step,             \* the curve for-loop counter
    pc,               \* position in the pass
    order,            \* how the queue is processed: "stack" is queue.pop()
    s,                \* the rest of the RunState a specification uses (s.features, ...)
    host,             \* the host's side: localStorage, React state, the rendered page
    hist              \* history of the pass (events per work item); not program state

vars == <<w, blocks, queue, raysProcessed, segments, hitBlockId, cur, guard, step, pc, order, s, host, hist>>

----------------------------------------------------------------------------
(* Program constants, lengths in 1/20 px.                                  *)

EPS == 20
MAX_RAYS == 24
MAX_SEGMENTS == 180
MAX_CURVE_STEPS == 260
GUARD_MAX == 64
HYSTERESIS == 12
insideEps == 15
stepLen == 120
STEP_MIN_T == 5
FALLOFF_START == 75
MAX_BOUNCES_CAP == 12

(* Bounds of the model.                                                    *)
MaxBounces == 2          \* s.stats.maxBounces ranges over 0..MaxBounces
MaxFalloffUps == 13      \* number of common bounceFalloff upgrades taken (+0.02 each)

RECURSIVE Pow(_, _)
Pow(b, n) == IF n = 0 THEN 1 ELSE b * Pow(b, n - 1)

\* Intensity 1.0, scaled so that MaxBounces multiplications by a falloff given
\* in hundredths stay exact.
IntensityOne == Pow(100, MaxBounces)

Min2(a, b) == IF a <= b THEN a ELSE b
Max2(a, b) == IF a >= b THEN a ELSE b

\* "no hit" (null)
NoHit == [kind |-> "none", id |-> 0, t |-> 0, point |-> 0, ord |-> 0]

----------------------------------------------------------------------------
(* Tracks and arena walls.                                                 *)
(* Track <<0, 0, 0>> is the emitter's column, from the bottom wall (0) to  *)
(* the top wall (ColumnLen).  Track <<p, deg, d>> is the line a child of   *)
(* prism p leaves on at exit angle deg when the parent came in direction d;*)
(* the prism's hit point is at SideHit on it.  A +-90 degree track runs    *)
(* from the left wall to the right wall and meets both head-on.  A track   *)
(* at +-15 or +-45 degrees meets the walls obliquely: it is the unfolded   *)
(* path, on which a wall reflection keeps the ray going forward.           *)

Column == <<0, 0, 0>>
ColumnLen(sc) == sc.columnLen
SideLen == 7200
SideHit == 3600
FoldPitch == 6000

SideTrack(prismId, deg, d) == <<prismId, deg, d>>

\* The wall markers in the way of a ray at o on a track: pos, the wall id, the ray
\* direction the wall faces (0: both), and whether the reflection folds.  On an
\* unfolded path only the wall that ends the current leg is in the ray's way.
Walls(sc, tr, o) ==
    IF tr = Column
    THEN { [pos |-> 0, id |-> -4, face |-> -1, fold |-> FALSE],
           [pos |-> ColumnLen(sc), id |-> -3, face |-> 1, fold |-> FALSE] }
    ELSE IF tr[2] \in {90, -90}
    THEN { [pos |-> 0, id |-> -1, face |-> -1, fold |-> FALSE],
           [pos |-> SideLen, id |-> -2, face |-> 1, fold |-> FALSE] }
    ELSE LET k == (o - SideHit) \div FoldPitch + 1
         IN  { [pos |-> SideHit + k * FoldPitch, id |-> -1 - (k % 2), face |-> 0, fold |-> TRUE] }

----------------------------------------------------------------------------
(* The intersection library and the scene query (raycast.ts), on a track.  *)
(* Offset ray k is 1 for the centreline, 2 and 3 for -radius and +radius.  *)
(* e.ch[k] is the chord <<lo, hi>> that entity e cuts out of offset ray k, *)
(* or <<>> when that ray misses it.                                        *)

Dist(o, d, x) == (x - o) * d

\* the element of a one-element set
Only(S) == CHOOSE x \in S : TRUE

MinOf(S) == CHOOSE x \in S : \A y \in S : x <= y

\* first-found wins on equal t: ord is the position in the code's iteration order
Nearest(cands) ==
    Only({ IF S = {} THEN NoHit
           ELSE CHOOSE h \in S : \A g \in S : h.t < g.t \/ (h.t = g.t /\ h.ord <= g.ord) :
           S \in {cands} })

MkHit(kind, id, o, d, t, ord) == [kind |-> kind, id |-> id, t |-> t, point |-> o + d * t, ord |-> ord]

\* raySegment: t < 0 is rejected.  On a track the segments a ray can meet are the
\* two faces of the chord.
raySegment(o, d, x) == IF Dist(o, d, x) < 0 THEN {} ELSE {Dist(o, d, x)}

\* rayCircle: the non-negative roots
rayCircle(o, d, ch) == {t \in {Dist(o, d, ch[1]), Dist(o, d, ch[2])} : t >= 0}

quickRejectRayAabb(o, d, ch) == Max2(Dist(o, d, ch[1]), Dist(o, d, ch[2])) >= 0

raycastScenePolys(o, d, polys, k, maxDist, minT) ==
    Nearest(UNION {
        { MkHit(p.kind, p.id, o, d, t, 100 * k + p.id) :
            t \in { t \in raySegment(o, d, p.ch[k][1]) \cup raySegment(o, d, p.ch[k][2]) :
                        t >= minT /\ t <= maxDist } } :
        p \in { q \in polys : /\ ~(q.maxY < 0)
                              /\ q.ch[k] # <<>>
                              /\ quickRejectRayAabb(o, d, q.ch[k]) } })

\* A prism is skipped when it is the ignored one or when the origin is strictly
\* inside its circle; otherwise its first root >= minT counts, if within maxDist.
raycastSceneCircles(o, d, circles, k, maxDist, minT, ignorePrismId) ==
    Nearest(UNION {
        LET ts == { t \in rayCircle(o, d, c.ch[k]) : t >= minT }
        IN  IF ts = {} \/ MinOf(ts) > maxDist THEN {}
            ELSE { MkHit(c.kind, c.id, o, d, MinOf(ts), 100 * k + 30 + c.id) } :
        c \in { q \in circles : /\ ~(q.maxY < 0)
                                /\ q.id # ignorePrismId
                                /\ q.ch[k] # <<>>
                                /\ ~(q.ch[k][1] < o /\ o < q.ch[k][2]) } })

\* the slab entry alone, without the immediate hit from inside
rayAabbEntryOnly(o, d, ch) ==
    IF Min2(Dist(o, d, ch[1]), Dist(o, d, ch[2])) < 0 THEN {}
    ELSE { Min2(Dist(o, d, ch[1]), Dist(o, d, ch[2])) }

\* rayAabb: origin strictly inside gives t = 0; otherwise the slab entry, rejected
\* when negative.
rayAabb(o, d, ch) ==
    IF ch[1] < o /\ o < ch[2] THEN {0}
    ELSE IF Min2(Dist(o, d, ch[1]), Dist(o, d, ch[2])) < 0 THEN {}
    ELSE { Min2(Dist(o, d, ch[1]), Dist(o, d, ch[2])) }

\* the normal rayAabb returns: -d from inside, else the normal of the entry face
\* (the low face when tmin was not swapped, the high face when it was)
rayAabbNormal(o, d, ch) ==
    IF ch[1] < o /\ o < ch[2] THEN -d
    ELSE IF Dist(o, d, ch[1]) > Dist(o, d, ch[2]) THEN 1 ELSE -1

\* Black holes are the only AABBs: their effective minT is 0.
raycastSceneAabbs(o, d, aabbs, maxDist, minT) ==
    Nearest(UNION {
        { MkHit(a.kind, a.id, o, d, t, 60 + a.id) :
            t \in { t \in rayAabb(o, d, a.ch[1]) :
                      t >= (IF a.kind = "blackHole" THEN 0 ELSE minT) /\ t <= maxDist } } :
        a \in { q \in aabbs : /\ ~(q.maxY < 0)
                              /\ q.ch[1] # <<>>
                              /\ quickRejectRayAabb(o, d, q.ch[1]) } })

\* Each wall is tested only for rays heading towards it.
raycastSceneWalls(sc, tr, o, d, k, maxDist, minT) ==
    Nearest({ MkHit("wall", m.id, o, d, Dist(o, d, m.pos), 100 * k + 90) :
        m \in { n \in Walls(sc, tr, o) : /\ n.face \in {0, d}
                                        /\ Dist(o, d, n.pos) >= minT
                                        /\ Dist(o, d, n.pos) <= maxDist } })

\* the centreline alone, whatever the width
OffsetsCentreOnly(radius) == {1}

Offsets(radius) == IF radius <= 0 THEN {1} ELSE {1, 2, 3}

\* the wall whenever there is one
ClosestOfWallFirst(a, b, c, hitWall) ==
    LET ab     == IF b.kind # "none" /\ (a.kind = "none" \/ b.t < a.t) THEN b ELSE a
        hitObj == IF c.kind # "none" /\ (ab.kind = "none" \/ c.t < ab.t) THEN c ELSE ab
    IN  IF hitWall.kind # "none" THEN hitWall ELSE hitObj

\* closest of polygon hit a, circle hit b and AABB hit c, then the wall unless the
\* object is at most as far
ClosestOf(a, b, c, hitWall) ==
    LET ab     == IF b.kind # "none" /\ (a.kind = "none" \/ b.t < a.t) THEN b ELSE a
        hitObj == IF c.kind # "none" /\ (ab.kind = "none" \/ c.t < ab.t) THEN c ELSE ab
    IN  IF hitObj.kind # "none" /\ hitWall.kind # "none"
        THEN (IF hitObj.t <= hitWall.t THEN hitObj ELSE hitWall)
        ELSE IF hitObj.kind # "none" THEN hitObj ELSE hitWall

\* One offset ray of raycastSceneThick; black holes are tested on the centre ray
\* (every offset ray here uses the centre chord ch[1] of an AABB).
OffsetHit(sc, tr, o, d, live, k, maxDist, minT, ignorePrismId) ==
    LET feats   == { e \in sc.things : tr \in e.trs }
        polys   == { e \in feats : (e.kind = "block" /\ e.id \in live) \/ e.kind = "mirror" }
        circles == { e \in feats : e.kind = "prism" /\ e.id # ignorePrismId }
        aabbs   == { e \in feats : e.kind = "blackHole" }
    IN  Only({ [ClosestOf(a, b, c, hitWall) EXCEPT !.ord = k] :
                 a \in { raycastScenePolys(o, d, polys, k, maxDist, minT) },
                 b \in { raycastSceneCircles(o, d, circles, k, maxDist, minT, ignorePrismId) },
                 c \in { raycastSceneAabbs(o, d, aabbs, maxDist, minT) },
                 hitWall \in { raycastSceneWalls(sc, tr, o, d, k, maxDist, minT) } })

raycastSceneThick(sc, tr, o, d, live, maxDist, radius, minT, ignorePrismId) ==
    Nearest({ h \in { OffsetHit(sc, tr, o, d, live, k, maxDist, minT, ignorePrismId) :
                        k \in Offsets(radius) } : h.kind # "none" })

----------------------------------------------------------------------------
(* Stats: createInitialRunState and applyOffer (levelUp).                  *)

InitialStats ==
    [maxBounces |-> 1, bounceFalloff |-> FALLOFF_START, splitterChance |-> 0,
     noWallPenalty |-> FALSE]

\* bounceFalloff and splitterChance are in hundredths
applyOffer(stats, offer) ==
    IF offer.type = "bounces"
    THEN [stats EXCEPT !.maxBounces =
            Min2(MAX_BOUNCES_CAP, @ + (IF offer.rarity = "rare" THEN 1
                                       ELSE IF offer.rarity = "epic" THEN 2 ELSE 3))]
    ELSE IF offer.type = "bounceFalloff"
    THEN [stats EXCEPT !.bounceFalloff =
            @ + (IF offer.rarity = "common" THEN 2
                 ELSE IF offer.rarity = "rare" THEN 4
                 ELSE IF offer.rarity = "epic" THEN 6 ELSE 10)]
    ELSE IF offer.type = "splitterChance"
    THEN [stats EXCEPT !.splitterChance = @ + (IF offer.rarity = "epic" THEN 1 ELSE 3)]
    ELSE IF offer.type = "noWallPenalty"
    THEN [stats EXCEPT !.noWallPenalty = TRUE]
    ELSE IF offer.type = "bounceTrade"
    THEN [stats EXCEPT !.maxBounces = 1]
    ELSE stats

RECURSIVE applyOffers(_, _)
applyOffers(stats, offers) ==
    IF offers = <<>> THEN stats
    ELSE applyOffers(applyOffer(stats, Head(offers)), Tail(offers))

Repeat(x, n) == [i \in 1..n |-> x]

\* The bounce-falloff values reached by taking n common upgrades
FalloffAfter(n) ==
    applyOffers(InitialStats, Repeat([type |-> "bounceFalloff", rarity |-> "common"], n)).bounceFalloff

----------------------------------------------------------------------------
(* Entities of a tick.                                                     *)

Same(lo, hi) == << <<lo, hi>>, <<lo, hi>>, <<lo, hi>> >>
NoChord == << <<>>, <<>>, <<>> >>

Thing(kind, id, tr, ch) ==
    [kind |-> kind, id |-> id, trs |-> {tr}, ch |-> ch, fch |-> NoChord,
     hp |-> 0, exits |-> <<>>, maxY |-> 800]

\* a destructible body: one 40 px cell
BlockAt(id, tr, lo, hp) == [Thing("block", id, tr, Same(lo, lo + 800)) EXCEPT !.hp = hp]
MirrorAt(id, tr, lo) == Thing("mirror", id, tr, Same(lo, lo + 800))
\* spawnPrism: r = 0.36 * cellSize = 14.4 px
PrismAt(id, tr, lo, exits) == [Thing("prism", id, tr, Same(lo, lo + 576)) EXCEPT !.exits = exits]
\* spawnBlackHole: a 40 px tile, rInfluence = 112.2 px, around centre c
HoleAt(id, tr, c) ==
    [Thing("blackHole", id, tr, Same(c - 400, c + 400)) EXCEPT !.fch = Same(c - 2244, c + 2244)]
\* a black hole beside the track: the ray misses the tile, and crosses the
\* influence circle on the chord fch[k] of offset ray k
HoleBeside(id, tr, fch) == [Thing("blackHole", id, tr, NoChord) EXCEPT !.fch = fch]

----------------------------------------------------------------------------
(* The laser pass of stepSim: helpers.                                     *)

beamRadius == Max2(0, (w.beamWidth * 45) \div 100)

Abs(x) == IF x < 0 THEN -x ELSE x

allowed == {0, 15, -15, 45, -45, 90, -90}

\* [...new Set(xs)]: first occurrences, in order
DedupSeq(xs) ==
    LET keep == { i \in 1..Len(xs) : \A j \in 1..(i - 1) : xs[j] # xs[i] }
    IN  [k \in 1..Cardinality(keep) |->
            xs[CHOOSE i \in keep : Cardinality({ j \in keep : j <= i }) = k]]

\* sort((a, b) => |a| - |b|): stable
SortByAbs(xs) ==
    LET before(i) == { j \in 1..Len(xs) : \/ Abs(xs[j]) < Abs(xs[i])
                                           \/ (Abs(xs[j]) = Abs(xs[i]) /\ j < i) }
    IN  [k \in 1..Len(xs) |-> xs[CHOOSE i \in 1..Len(xs) : Cardinality(before(i)) = k - 1]]

IsAllowed(x) == x \in allowed

\* what the queries of the pass are handed: s.blocks and s.features as they are at
\* the call (a prism spawned earlier in the pass is in s.features)
scene == [w EXCEPT !.things = { f \in @ : f.kind = "block" } \cup s.features]

\* the exit angles emitPrismRays uses for prism prismId
prismExits(prismId) ==
    LET found  == { f \in s.features : f.kind = "prism" /\ f.id = prismId }
        raw    == IF found # {} /\ Len((CHOOSE f \in found : TRUE).exits) > 0
                  THEN (CHOOSE f \in found : TRUE).exits
                  ELSE <<45, -45>>
    IN  Only({ SortByAbs(uniq) :
                 uniq \in { DedupSeq(ok) : ok \in { SelectSeq(raw, IsAllowed) } } })

\* enqueueRay: refuse when processed + queued has reached MAX_RAYS
\* enqueueRay without the cap
enqueueOkNoCap(q) == TRUE

enqueueOk(q) == ~(raysProcessed + Len(q) >= MAX_RAYS)

enqueueRay(q, work) == IF ~enqueueOk(q) THEN q ELSE Append(q, work)

\* a child without the tag of the prism it was split at
PrismChildUntagged(q, prismId, hitPoint, incoming, intensity, bouncesLeft, deg) ==
    [tr |-> IF deg = 0 THEN cur.tr ELSE SideTrack(prismId, deg, incoming),
     o |-> IF deg = 0 THEN hitPoint + incoming * (EPS + beamRadius)
           ELSE SideHit + (EPS + beamRadius),
     d |-> IF deg = 0 THEN incoming ELSE 1,
     intensity |-> intensity,
     bouncesLeft |-> bouncesLeft,
     minT |-> EPS + (beamRadius * 3) \div 4,
     ignorePrismId |-> -1,
     ray |-> raysProcessed + Len(q) + 1,
     parent |-> cur.ray,
     born |-> Len(segments) + 1]

\* a child that gets half of the parent's intensity
PrismChildHalved(q, prismId, hitPoint, incoming, intensity, bouncesLeft, deg) ==
    [tr |-> IF deg = 0 THEN cur.tr ELSE SideTrack(prismId, deg, incoming),
     o |-> IF deg = 0 THEN hitPoint + incoming * (EPS + beamRadius)
           ELSE SideHit + (EPS + beamRadius),
     d |-> IF deg = 0 THEN incoming ELSE 1,
     intensity |-> intensity \div 2,
     bouncesLeft |-> bouncesLeft,
     minT |-> EPS + (beamRadius * 3) \div 4,
     ignorePrismId |-> prismId,
     ray |-> raysProcessed + Len(q) + 1,
     parent |-> cur.ray,
     born |-> Len(segments) + 1]

\* the child work item of emitPrismRays for exit angle deg
\* a child that starts with the full bounce budget again
PrismChildFullBudget(q, prismId, hitPoint, incoming, intensity, bouncesLeft, deg) ==
    [tr |-> IF deg = 0 THEN cur.tr ELSE SideTrack(prismId, deg, incoming),
     o |-> IF deg = 0 THEN hitPoint + incoming * (EPS + beamRadius)
           ELSE SideHit + (EPS + beamRadius),
     d |-> IF deg = 0 THEN incoming ELSE 1,
     intensity |-> intensity,
     bouncesLeft |-> w.stats.maxBounces,
     minT |-> EPS + (beamRadius * 3) \div 4,
     ignorePrismId |-> prismId,
     ray |-> raysProcessed + Len(q) + 1,
     parent |-> cur.ray,
     born |-> Len(segments) + 1]

PrismChild(q, prismId, hitPoint, incoming, intensity, bouncesLeft, deg) ==
    [tr |-> IF deg = 0 THEN cur.tr ELSE SideTrack(prismId, deg, incoming),
     o |-> IF deg = 0 THEN hitPoint + incoming * (EPS + beamRadius)
           ELSE SideHit + (EPS + beamRadius),
     d |-> IF deg = 0 THEN incoming ELSE 1,
     intensity |-> intensity,
     bouncesLeft |-> bouncesLeft,
     minT |-> EPS + (beamRadius * 3) \div 4,
     ignorePrismId |-> prismId,
     ray |-> raysProcessed + Len(q) + 1,
     parent |-> cur.ray,
     born |-> Len(segments) + 1]

\* the for-loop of emitPrismRays: stop at the first refused child
RECURSIVE emitLoop(_, _, _, _, _, _, _)
emitLoop(q, exits, prismId, hitPoint, incoming, intensity, bouncesLeft) ==
    IF exits = <<>> THEN q
    ELSE IF ~enqueueOk(q) THEN q
    ELSE Only({ emitLoop(q2, rest, prismId, hitPoint, incoming, intensity, bouncesLeft) :
                  q2 \in { enqueueRay(q, PrismChild(q, prismId, hitPoint, incoming, intensity,
                                                     bouncesLeft, Head(exits))) },
                  rest \in { Tail(exits) } })

emitPrismRays(q, prismId, hitPoint, incoming, intensity, bouncesLeft) ==
    Only({ emitLoop(q, exits, prismId, hitPoint, incoming, intensity, bouncesLeft) :
             exits \in { prismExits(prismId) } })

\* tryAddSeg
tryAddSegOk(segs) == ~(Len(segs) >= MAX_SEGMENTS)

tryAddSeg(segs, a, b, intensity) ==
    IF ~tryAddSegOk(segs) THEN segs
    ELSE Append(segs, [tr |-> cur.tr, a |-> a, b |-> b, intensity |-> intensity,
                       ray |-> cur.ray, from |-> cur.born])

\* a hit that leaves the body in s.blocks whatever its hp
dealDamageAtHitKeep(bs, blockId, intensity) ==
    IF blockId \notin DOMAIN bs THEN bs
    ELSE [bs EXCEPT ![blockId] = @ - w.dpsDt * intensity]

\* dealDamageAtHit: the body's hp after the hit; a body at hp <= 0 is removed
dealDamageAtHit(bs, blockId, intensity) ==
    IF blockId \notin DOMAIN bs THEN bs
    ELSE LET hp == bs[blockId] - w.dpsDt * intensity
         IN  IF hp <= 0 THEN [b \in DOMAIN bs \ {blockId} |-> bs[b]]
             ELSE [bs EXCEPT ![blockId] = hp]

\* the exit sets a spawned prism is given here (the code draws 2..4 distinct angles)
SpawnExits == { <<0, 90>>, <<45, -45>> }

\* spawnPrismAt(s, b.pos.x, b.pos.y): a prism of radius 14.4 px in the 40 px tile at
\* the body's position, with the next feature id, pushed onto s.features
spawnPrismAt(st, b, exits) ==
    [st EXCEPT !.features = @ \cup { [PrismAt(st.nextFeatureId, Column, b.ch[1][1] + 112, exits)
                                        EXCEPT !.trs = b.trs, !.maxY = b.maxY] },
               !.pos = [id \in DOMAIN @ \cup {st.nextFeatureId} |->
                          IF id = st.nextFeatureId THEN @[b.id] ELSE @[id]],
               !.nextFeatureId = @ + 1]

\* the part of dealDamageAtHit that runs when hp <= 0: count the body, and on a
\* successful splitter roll leave a prism where it was
destroyed(st, blockId, roll, exits) ==
    LET counted == [st EXCEPT !.blocksDestroyed = @ + 1]
    IN  IF w.stats.splitterChance > 0 /\ roll
        THEN spawnPrismAt(counted, CHOOSE e \in w.things : e.kind = "block" /\ e.id = blockId,
                          exits)
        ELSE counted

\* rayCircleEnterT: 0 inside, else the first non-negative root, else null ({})
rayCircleEnterT(o, d, ch) ==
    IF ch = <<>> THEN {}
    ELSE IF ch[1] < o /\ o < ch[2] THEN {0}
    ELSE LET t1 == Min2(Dist(o, d, ch[1]), Dist(o, d, ch[2]))
             t2 == Max2(Dist(o, d, ch[1]), Dist(o, d, ch[2]))
         IN  IF t1 >= 0 THEN {t1} ELSE IF t2 >= 0 THEN {t2} ELSE {}

\* the holes of the track, those wholly above the visible area too
holeInfosAll == { f \in w.things : f.kind = "blackHole" /\ cur.tr \in f.trs }

\* holes with maxY < 0 are skipped wherever holeInfos is iterated
holeInfos == { f \in w.things : f.kind = "blackHole" /\ cur.tr \in f.trs /\ ~(f.maxY < 0) }

\* the influence entries ahead of the current ray: <<tEnter, hole id>>
EnterCands ==
    { c \in UNION { { <<t, h.id>> : t \in rayCircleEnterT(cur.o, cur.d, h.fch[k]) } :
                      <<h, k>> \in holeInfos \X Offsets(beamRadius) } :
        c[1] >= cur.minT /\ c[1] <= w.maxDist }

\* enterT, -1 for null
enterT == IF EnterCands = {} THEN -1 ELSE MinOf({ c[1] : c \in EnterCands })

hit == raycastSceneThick(scene, cur.tr, cur.o, cur.d, DOMAIN blocks, w.maxDist, beamRadius,
                         cur.minT, cur.ignorePrismId)

\* the decision to switch into curved integration
enterCurved(eT, h) == eT # -1 /\ (h.kind = "none" \/ eT < h.t - HYSTERESIS)

\* inside some influence field (dist < rInf)
any == \E h \in holeInfos : h.fch[1] # <<>> /\ h.fch[1][1] < cur.o /\ cur.o < h.fch[1][2]

stepHit == raycastSceneThick(scene, cur.tr, cur.o, cur.d, DOMAIN blocks, stepLen, beamRadius,
                             STEP_MIN_T, cur.ignorePrismId)

\* a while loop that stops one work item short of the cap
whileCondOneShort == Len(queue) > 0 /\ raysProcessed < MAX_RAYS - 1 /\ Len(segments) < MAX_SEGMENTS

\* the outer loop without its step guard
outerCondNoGuard == Len(segments) < MAX_SEGMENTS

outerCond == guard < GUARD_MAX /\ Len(segments) < MAX_SEGMENTS
curveCond == step < MAX_CURVE_STEPS /\ Len(segments) < MAX_SEGMENTS
whileCond == Len(queue) > 0 /\ raysProcessed < MAX_RAYS /\ Len(segments) < MAX_SEGMENTS

\* a reflection that lets the ray through
reflectThrough(d, h) == d

\* reflect(d, normal): head-on it reverses d; on an unfolded path the ray goes on
reflect(d, h) == IF h.kind = "wall" /\ cur.tr # Column /\ cur.tr[2] \notin {90, -90} THEN d ELSE -d

\* the flag taken to cover mirrors as well
skipPenaltyAnyReflector(h) == h.kind \in {"wall", "mirror"} /\ w.stats.noWallPenalty

skipPenalty(h) == h.kind = "wall" /\ w.stats.noWallPenalty

\* a bounce that spends budget but keeps the intensity
bounceNoDecay(h) ==
    LET d2 == reflect(cur.d, h)
    IN  [cur EXCEPT !.d = d2,
                    !.bouncesLeft = IF skipPenalty(h) THEN @ ELSE @ - 1,
                    !.o = h.point + d2 * (EPS + beamRadius),
                    !.minT = EPS + (beamRadius * 3) \div 4]

\* the locals after a bounce off h: reflect, decay unless penalty-free, restart
\* past the surface with a raised minimum travel
bounce(h) ==
    LET d2 == reflect(cur.d, h)
    IN  [cur EXCEPT !.d = d2,
                    !.intensity = IF skipPenalty(h) THEN @ ELSE (@ * w.stats.bounceFalloff) \div 100,
                    !.bouncesLeft = IF skipPenalty(h) THEN @ ELSE @ - 1,
                    !.o = h.point + d2 * (EPS + beamRadius),
                    !.minT = EPS + (beamRadius * 3) \div 4]

----------------------------------------------------------------------------
(* The ticks the pass is run on.                                           *)

Stats(mb, ups, nwp) ==
    [maxBounces |-> mb, bounceFalloff |-> FalloffAfter(ups), splitterChance |-> 0,
     noWallPenalty |-> nwp]

\* a 360 x 600 px arena: maxDist = 1.35 * hypot(w, h); beam width 12 px; the
\* emitter 40 px above the bottom wall, aiming up.  The things are given where the
\* pass sees them, dropAnimOffset above their logical positions.
Tick(name, things, stats) ==
    [name |-> name, things |-> things, stats |-> stats, columnLen |-> 12000,
     maxDist |-> 18892, beamWidth |-> 240, dpsDt |-> 3, dropAnimOffset |-> 0,
     emitter |-> [o |-> 800, d |-> 1]]

StatsSet ==
    { Stats(mb, ups, nwp) : mb \in 0..MaxBounces,
                            ups \in {0, MaxFalloffUps - 1, MaxFalloffUps},
                            nwp \in BOOLEAN }

ExitSets == { <<45, -45>>, <<0, 90>>, <<90, 0, -90>>, <<0, 45, -45, 90>> }

Layouts ==
    { <<"open", {}>> }
    \cup { <<"body", {BlockAt(1, Column, 6000, hp)}>> : hp \in {2, 50} }
    \cup { <<"bodyMirror", {BlockAt(1, Column, 5000, 5), MirrorAt(31, Column, 9000)}>> }
    \cup { <<"prisms", {PrismAt(11, Column, 4000, ex), PrismAt(12, Column, 8000, <<0, -90>>)}>> :
             ex \in ExitSets }
    \* six four-way prisms in a row: the splits outrun the work-item cap
    \cup { <<"prismStack", { PrismAt(10 + i, Column, 1000 + 1000 * i, <<0, 45, -45, 90>>) :
                              i \in 1..6 }>> }
    \* a two-way prism with a body on each side: two work items damage two bodies
    \cup { <<"twoBodies", {PrismAt(11, Column, 4000, <<90, -90>>),
                            BlockAt(1, SideTrack(11, 90, 1), 5000, 50),
                            BlockAt(2, SideTrack(11, -90, 1), 5000, 50)}>> }
    \* both children cross weak body 1; behind it, on one path only, is body 2
    \cup { <<"sharedBody", {PrismAt(11, Column, 4000, <<90, -90>>),
                             [BlockAt(1, SideTrack(11, 90, 1), 4500, 2)
                                EXCEPT !.trs = {SideTrack(11, 90, 1), SideTrack(11, -90, 1)}],
                             BlockAt(2, SideTrack(11, -90, 1), 6000, 50)}>> }
    \* the straight-on child bounces off a mirror and comes back through its prism
    \cup { <<"prismMirror", {PrismAt(11, Column, 4000, <<0, 90>>), MirrorAt(31, Column, 7000)}>> }
    \* a hole 5 px above the arena top whose influence circle reaches into the arena
    \cup { <<"holeAbove", {[HoleAt(21, Column, 12500) EXCEPT !.maxY = -100]}>> }
    \* a body above the arena top, ahead of a child that starts beyond the top wall
    \cup { <<"bodyAbove", {PrismAt(11, Column, 11900, <<0, 90>>),
                            [BlockAt(1, Column, 12700, 50) EXCEPT !.maxY = -700]}>> }
    \cup { <<"holeCore", {HoleAt(21, Column, 7000)}>> }
    \cup { <<"holePrism", {HoleAt(21, Column, 7000), PrismAt(11, Column, 5500, <<0, 45>>)}>> }
    \cup { <<"holeBody", {HoleAt(21, Column, 7000), BlockAt(1, Column, 5500, hp)}>> : hp \in {2, 50} }
    \cup { <<"holeMirror", {HoleAt(21, Column, 7000), MirrorAt(31, Column, 5500)}>> }
    \cup { <<"bend", {HoleBeside(21, Column, Same(3000, 6000))}>> }
    \cup { <<"graze", {HoleBeside(21, Column, << <<>>, <<3000, 9000>>, <<>> >>)}>> }
    \* a prism straddling the top wall: its straight-on child starts outside the arena
    \cup { <<"prismTop", {PrismAt(11, Column, 11900, <<0, 90>>)}>> }
    \cup { <<"threshold", {HoleAt(21, Column, 7000), BlockAt(1, Column, 4756 + gap, 50)}>> :
             gap \in {HYSTERESIS, HYSTERESIS + 1} }

Ticks ==
    { Tick(l[1], l[2], st) : l \in Layouts, st \in StatsSet }
    \* a zero-width beam
    \cup { [Tick("thin", {BlockAt(1, Column, 6000, 50)}, Stats(mb, 0, FALSE))
              EXCEPT !.beamWidth = 0] : mb \in 0..MaxBounces }
    \* max-bounces 1 and falloff 0.8: a body straight ahead, the bottom wall behind
    \cup { [Tick("scenarioB", {BlockAt(1, Column, 6000, 50)}, Stats(1, 0, nwp))
              EXCEPT !.stats.bounceFalloff = 80] : nwp \in BOOLEAN }
    \* the splitter upgrade taken once (epic, +0.01): a destroyed body may leave a prism
    \cup { [Tick(l[1], l[2], Stats(mb, 0, nwp)) EXCEPT !.name = "splitter",
                                                       !.stats.splitterChance = 1,
                                                       !.dropAnimOffset = off] :
             l \in { m \in Layouts : m[1] \in {"body", "bodyMirror", "sharedBody", "holeBody"} },
             mb \in 0..MaxBounces, nwp \in BOOLEAN, off \in {0, 400} }
    \* a ray that stays inside the influence field: the bent path circles the hole
    \cup { [Tick("orbit", {HoleBeside(21, Column, Same(3000, 90000))}, Stats(1, 0, FALSE))
              EXCEPT !.columnLen = 100000] }
    \* the last work item the cap admits circles a hole until the segment cap
    \cup { [Tick("prismStackOrbit",
                   { PrismAt(10 + i, Column, 1000 + 1000 * i, <<0, 45, -45, 90>>) : i \in 1..6 }
                     \cup {HoleBeside(21, Column, Same(9000, 90000))},
                   Stats(0, 0, FALSE))
              EXCEPT !.columnLen = 100000] }

----------------------------------------------------------------------------
(* The laser pass of stepSim.                                              *)

NoHistory ==
    [term |-> "none", late |-> {}, entered |-> {}, reentered |-> {},
     split |-> [n |-> 0, added |-> 0, room |-> 0, same |-> TRUE, tagged |-> TRUE,
                prism |-> 0, ignored |-> -1],
     damage |-> [id |-> 0, before |-> 0, after |-> 0, intensity |-> 0], hits |-> 0,
     bounce |-> [before |-> 0, after |-> 0, free |-> TRUE, n |-> 0,
                 kind |-> "none", left |-> 0, leftAfter |-> 0],
     stop |-> [kind |-> "none", left |-> 0],
     created |-> 1, result |-> NoHit, primary |-> 0,
     lineage |-> 0, inherit |-> <<>>,
     stack |-> [done |-> FALSE, segments |-> {}, trace |-> <<>>, blocks |-> <<>>,
                hitBlockId |-> 0, capped |-> FALSE, destroyed |-> FALSE, damaged |-> {}]]

\* s.blocks at the start of the pass: hp in units of 1 / IntensityOne
InitialBlocks(tick) ==
    [id \in { e.id : e \in { f \in tick.things : f.kind = "block" } } |->
        (CHOOSE e \in tick.things : e.kind = "block" /\ e.id = id).hp * IntensityOne]

\* the queue starts with the emitter's ray
InitialQueue(tick) ==
    << [tr |-> Column, o |-> tick.emitter.o, d |-> tick.emitter.d,
        intensity |-> IntensityOne, bouncesLeft |-> tick.stats.maxBounces,
        minT |-> 0, ignorePrismId |-> -1, ray |-> 1, parent |-> 0, born |-> 0] >>

NoRay ==
    [tr |-> Column, o |-> 0, d |-> 1, intensity |-> 0, bouncesLeft |-> 0,
     minT |-> 0, ignorePrismId |-> -1, ray |-> 0, parent |-> 0, born |-> 0]

\* the run state the pass starts from; feature ids below nextFeatureId are taken.
\* pos is pos.y of every body and feature: the top of its 40 px tile.
InitialRun(tick) ==
    [features |-> { f \in tick.things : f.kind # "block" }, nextFeatureId |-> 41,
     blocksDestroyed |-> 0,
     pos |-> [id \in { f.id : f \in tick.things } |->
                (CHOOSE f \in tick.things : f.id = id).maxY - 800 + tick.dropAnimOffset]]

InitFor(tick) ==
    /\ w = tick
    /\ s = InitialRun(tick)
    /\ host = <<>>
    /\ blocks = InitialBlocks(tick)
    /\ queue = InitialQueue(tick)
    /\ raysProcessed = 0
    /\ segments = <<>>
    /\ hitBlockId = 0
    /\ cur = NoRay
    /\ guard = 0
    /\ step = 0
    /\ pc = "adjust"
    /\ order = "stack"
    /\ hist = NoHistory

Init == \E tick \in Ticks : InitFor(tick)

\* adjustPositionsForAnimation: every body in s.blocks and every feature in
\* s.features is moved up by the drop-animation offset
adjustPositionsForAnimation(st, live) ==
    IF w.dropAnimOffset > 0
    THEN [st EXCEPT !.pos = [id \in DOMAIN @ |->
                               IF id \in live \cup { f.id : f \in st.features }
                               THEN @[id] - w.dropAnimOffset ELSE @[id]]]
    ELSE st

\* restoreLogicalPositions: the same loops, adding the offset back
restoreLogicalPositions(st, live) ==
    IF w.dropAnimOffset > 0
    THEN [st EXCEPT !.pos = [id \in DOMAIN @ |->
                               IF id \in live \cup { f.id : f \in st.features }
                               THEN @[id] + w.dropAnimOffset ELSE @[id]]]
    ELSE st

\* the pass is entered with the hitboxes at their visual positions
AdjustPositions ==
    /\ pc = "adjust"
    /\ s' = adjustPositionsForAnimation(s, DOMAIN blocks)
    /\ pc' = "while"
    /\ UNCHANGED <<w, order, host, blocks, queue, raysProcessed, segments, hitBlockId, cur, guard, step, hist>>

\* after the pass the logical positions are restored and stepSim returns
RestorePositions ==
    /\ pc = "restore"
    /\ s' = restoreLogicalPositions(s, DOMAIN blocks)
    /\ pc' = "done"
    /\ UNCHANGED <<w, order, host, blocks, queue, raysProcessed, segments, hitBlockId, cur, guard, step, hist>>

\* an event by a work item that has already met its terminal hit
Late(what) == IF hist.term = "none" THEN {} ELSE {[term |-> hist.term, what |-> what]}

\* a dequeue that reads the front in FIFO order but always removes the back
DequeueMixed ==
    /\ pc = "while"
    /\ whileCond
    /\ cur' = IF order = "stack" THEN queue[Len(queue)] ELSE Head(queue)
    /\ queue' = SubSeq(queue, 1, Len(queue) - 1)
    /\ raysProcessed' = raysProcessed + 1
    /\ guard' = 0
    /\ pc' = "outer"
    /\ hist' = [hist EXCEPT !.term = "none", !.entered = {},
                            !.lineage = IF cur'.ray \in DOMAIN hist.inherit
                                        THEN hist.inherit[cur'.ray] ELSE 0]
    /\ UNCHANGED <<w, order, host, s, blocks, segments, hitBlockId, step>>

\* while (queue.length > 0 && raysProcessed < MAX_RAYS && segments < MAX_SEGMENTS): pop
Dequeue ==
    /\ pc = "while"
    /\ whileCond
    /\ cur' = IF order = "stack" THEN queue[Len(queue)] ELSE Head(queue)
    /\ queue' = IF order = "stack" THEN SubSeq(queue, 1, Len(queue) - 1) ELSE Tail(queue)
    /\ raysProcessed' = raysProcessed + 1
    /\ guard' = 0
    /\ pc' = "outer"
    /\ hist' = [hist EXCEPT !.term = "none", !.entered = {},
                            !.lineage = IF cur'.ray \in DOMAIN hist.inherit
                                        THEN hist.inherit[cur'.ray] ELSE 0]
    /\ UNCHANGED <<w, order, host, s, blocks, segments, hitBlockId, step>>

\* the while loop ends: the pass returns
PassDone ==
    /\ pc = "while"
    /\ ~whileCond
    /\ pc' = "restore"
    /\ UNCHANGED <<w, order, host, s, blocks, queue, raysProcessed, segments, hitBlockId, cur, guard, step, hist>>

\* the outer for-loop's condition fails
OuterExit ==
    /\ pc = "outer"
    /\ ~outerCond
    /\ pc' = "while"
    /\ UNCHANGED <<w, order, host, s, blocks, queue, raysProcessed, segments, hitBlockId, cur, guard, step, hist>>

\* the ray reaches an influence field before any solid hit: segment to the
\* boundary, nudge inside, start curved integration
EnterCurve ==
    /\ pc = "outer"
    /\ outerCond
    /\ \E eT \in {enterT} :
         /\ enterCurved(eT, hit)
         /\ LET entry       == IF eT <= 0 THEN cur.o ELSE cur.o + cur.d * eT
                segs1       == IF eT > 0 THEN tryAddSeg(segments, cur.o, entry, cur.intensity)
                               ELSE segments
                ok1         == eT > 0 => tryAddSegOk(segments)
                entryInside == entry + cur.d * insideEps
                ok2         == tryAddSegOk(segs1)
                wells       == { c[2] : c \in { e \in EnterCands : e[1] = eT } }
            IN  /\ segments' = IF ok1 THEN tryAddSeg(segs1, entry, entryInside, cur.intensity)
                               ELSE segs1
                /\ IF ok1 /\ ok2
                   THEN /\ cur' = [cur EXCEPT !.o = entryInside]
                        /\ step' = 0
                        /\ pc' = "curve"
                   ELSE /\ pc' = "while"
                        /\ UNCHANGED <<cur, step>>
                /\ hist' = IF ok1 /\ ok2
                           THEN [hist EXCEPT !.late = @ \cup Late("segment"),
                                             !.entered = @ \cup wells,
                                             !.reentered = @ \cup (hist.entered \cap wells)]
                           ELSE [hist EXCEPT !.late = @ \cup Late("segment")]
    /\ UNCHANGED <<w, order, host, s, blocks, queue, raysProcessed, hitBlockId, guard>>

\* no hit: a final segment out to max range
Escape ==
    /\ pc = "outer"
    /\ outerCond
    /\ \E h \in {hit} : ~enterCurved(enterT, h) /\ h.kind = "none"
    /\ segments' = tryAddSeg(segments, cur.o, cur.o + cur.d * w.maxDist, cur.intensity)
    /\ pc' = "while"
    /\ hist' = [hist EXCEPT !.late = @ \cup Late("segment"),
                            !.primary = IF cur.ray = 1 THEN 0 ELSE @]
    /\ UNCHANGED <<w, order, host, s, blocks, queue, raysProcessed, hitBlockId, cur, guard, step>>

\* The four dispatches below are shared by straight tracing (from "outer", on hit,
\* continuing with guard + 1 or breaking to "while") and curved integration
\* (from "curve", on stepHit, continuing with step + 1 or breaking to "afterCurve").

HitBlockOn(h, cont, brk) ==
    /\ h.kind = "block"
    /\ segments' = tryAddSeg(segments, cur.o, h.point, cur.intensity)
    /\ IF ~tryAddSegOk(segments)
       THEN /\ brk
            /\ hist' = hist
            /\ UNCHANGED <<blocks, hitBlockId, cur, s>>
       ELSE /\ blocks' = dealDamageAtHit(blocks, h.id, cur.intensity)
            /\ IF h.id \in DOMAIN blocks /\ h.id \notin DOMAIN blocks'
               THEN \E roll \in (IF w.stats.splitterChance > 0 THEN BOOLEAN ELSE {FALSE}) :
                      \E exits \in (IF roll THEN SpawnExits ELSE {<<>>}) :
                        s' = destroyed(s, h.id, roll, exits)
               ELSE s' = s
            /\ hitBlockId' = IF h.id \in DOMAIN blocks THEN h.id ELSE hitBlockId
            /\ hist' = [hist EXCEPT
                          !.late = @ \cup Late("segment") \cup Late("damage"),
                          !.term = IF cur.bouncesLeft <= 0 THEN "block" ELSE @,
                          !.hits = @ + 1,
                          !.primary = IF cur.ray # 1 THEN @
                                      ELSE IF cur.bouncesLeft <= 0 THEN h.id ELSE 0,
                          !.entered = IF cur.bouncesLeft <= 0 THEN @ ELSE {},
                          !.bounce = IF cur.bouncesLeft <= 0 THEN @
                                     ELSE [before |-> cur.intensity, after |-> bounce(h).intensity,
                                           free |-> FALSE, n |-> @.n + 1, kind |-> h.kind,
                                           left |-> cur.bouncesLeft,
                                           leftAfter |-> bounce(h).bouncesLeft],
                          !.lineage = IF cur.bouncesLeft <= 0 THEN @ ELSE @ + 1,
                          !.damage = [id |-> h.id, before |-> blocks[h.id],
                                      after |-> IF h.id \in DOMAIN blocks' THEN blocks'[h.id] ELSE 0,
                                      intensity |-> cur.intensity]]
            /\ IF cur.bouncesLeft <= 0
               THEN brk /\ cur' = cur
               ELSE cont /\ cur' = bounce(h)
    /\ UNCHANGED <<w, order, host, queue, raysProcessed>>

HitReflectorOn(h, cont, brk) ==
    /\ h.kind \in {"mirror", "wall"}
    /\ segments' = tryAddSeg(segments, cur.o, h.point, cur.intensity)
    /\ IF ~tryAddSegOk(segments) \/ (~skipPenalty(h) /\ cur.bouncesLeft <= 0)
       THEN /\ brk
            /\ cur' = cur
            /\ hist' = [hist EXCEPT !.late = @ \cup (IF tryAddSegOk(segments) THEN Late("segment")
                                                      ELSE {}),
                                    !.stop = IF tryAddSegOk(segments)
                                             THEN [kind |-> h.kind, left |-> cur.bouncesLeft]
                                             ELSE @,
                                    !.primary = IF cur.ray = 1 THEN 0 ELSE @]
       ELSE /\ cont
            /\ cur' = bounce(h)
            /\ hist' = [hist EXCEPT
                          !.late = @ \cup Late("segment") \cup Late("bounce"),
                          !.entered = {},
                          !.primary = IF cur.ray = 1 THEN 0 ELSE @,
                          !.lineage = IF skipPenalty(h) THEN @ ELSE @ + 1,
                          !.bounce = [before |-> cur.intensity, after |-> bounce(h).intensity,
                                      free |-> skipPenalty(h), n |-> @.n + 1, kind |-> h.kind,
                                      left |-> cur.bouncesLeft,
                                      leftAfter |-> bounce(h).bouncesLeft]]
    /\ UNCHANGED <<w, order, host, s, blocks, queue, raysProcessed, hitBlockId>>

HitPrismOn(h, brk) ==
    /\ h.kind = "prism"
    /\ segments' = tryAddSeg(segments, cur.o, h.point, cur.intensity)
    /\ brk
    /\ IF ~tryAddSegOk(segments)
       THEN UNCHANGED <<queue, hist>>
       ELSE \E q2 \in {emitPrismRays(queue, h.id, h.point, cur.d, cur.intensity, cur.bouncesLeft)} :
                /\ queue' = q2
                /\ hist' = [hist EXCEPT
                              !.late = @ \cup Late("segment") \cup Late("split"),
                              !.term = "prism",
                              !.primary = IF cur.ray = 1 THEN 0 ELSE @,
                              !.created = @ + Len(q2) - Len(queue),
                              !.inherit = [r \in DOMAIN @ \cup { q2[i].ray : i \in (Len(queue) + 1)..Len(q2) }
                                             |-> IF r \in DOMAIN @ THEN @[r] ELSE hist.lineage],
                              !.split = [n |-> Len((CHOOSE f \in s.features : f.id = h.id).exits),
                                         added |-> Len(q2) - Len(queue),
                                         room |-> MAX_RAYS - raysProcessed - Len(queue),
                                         same |-> \A i \in (Len(queue) + 1)..Len(q2) :
                                                    /\ q2[i].intensity = cur.intensity
                                                    /\ q2[i].bouncesLeft = cur.bouncesLeft,
                                         tagged |-> \A i \in (Len(queue) + 1)..Len(q2) :
                                                      q2[i].ignorePrismId = h.id,
                                         prism |-> h.id,
                                         ignored |-> cur.ignorePrismId]]
    /\ UNCHANGED <<w, order, host, s, blocks, raysProcessed, hitBlockId, cur>>

HitBlackHoleOn(h, brk) ==
    /\ h.kind = "blackHole"
    /\ segments' = tryAddSeg(segments, cur.o, h.point, cur.intensity)
    /\ brk
    /\ hist' = IF ~tryAddSegOk(segments) THEN hist
               ELSE [hist EXCEPT !.late = @ \cup Late("segment"), !.term = "blackHole",
                                 !.primary = IF cur.ray = 1 THEN 0 ELSE @]
    /\ UNCHANGED <<w, order, host, s, blocks, queue, raysProcessed, hitBlockId, cur>>

OuterContinue == guard' = guard + 1 /\ pc' = "outer" /\ step' = step
OuterBreak == pc' = "while" /\ UNCHANGED <<guard, step>>

\* straight tracing goes on to dispatch on hit h
Straight(h) == pc = "outer" /\ outerCond /\ ~enterCurved(enterT, h)

HitBlock == pc = "outer" /\ \E h \in {hit} : Straight(h) /\ HitBlockOn(h, OuterContinue, OuterBreak)
HitReflector == pc = "outer" /\ \E h \in {hit} : Straight(h) /\ HitReflectorOn(h, OuterContinue, OuterBreak)
HitPrism == pc = "outer" /\ \E h \in {hit} : Straight(h) /\ HitPrismOn(h, OuterBreak)
HitBlackHole == pc = "outer" /\ \E h \in {hit} : Straight(h) /\ HitBlackHoleOn(h, OuterBreak)

CurveContinue == step' = step + 1 /\ pc' = "curve" /\ guard' = guard
CurveBreak == pc' = "afterCurve" /\ UNCHANGED <<guard, step>>

Curving == pc = "curve" /\ curveCond /\ any

\* the curve loop ends: its condition fails, or the ray has left every field
CurveLeave ==
    /\ pc = "curve"
    /\ ~(curveCond /\ any)
    /\ cur' = IF curveCond THEN [cur EXCEPT !.minT = 0] ELSE cur
    /\ pc' = "afterCurve"
    /\ UNCHANGED <<w, order, host, s, blocks, queue, raysProcessed, segments, hitBlockId, guard, step, hist>>

\* a curve step with nothing in the way
CurveAdvance ==
    /\ Curving
    /\ stepHit.kind = "none"
    /\ segments' = tryAddSeg(segments, cur.o, cur.o + cur.d * stepLen, cur.intensity)
    /\ IF tryAddSegOk(segments)
       THEN CurveContinue /\ cur' = [cur EXCEPT !.o = cur.o + cur.d * stepLen, !.minT = 0]
       ELSE CurveBreak /\ cur' = cur
    /\ hist' = [hist EXCEPT !.late = @ \cup Late("segment")]
    /\ UNCHANGED <<w, order, host, s, blocks, queue, raysProcessed, hitBlockId>>

CurveHitBlock == Curving /\ \E h \in {stepHit} : HitBlockOn(h, CurveContinue, CurveBreak)
CurveHitReflector == Curving /\ \E h \in {stepHit} : HitReflectorOn(h, CurveContinue, CurveBreak)
CurveHitPrism == Curving /\ \E h \in {stepHit} : HitPrismOn(h, CurveBreak)
CurveHitBlackHole == Curving /\ \E h \in {stepHit} : HitBlackHoleOn(h, CurveBreak)

\* after the curve loop: "if (intensity <= 0) break; minT = 0; continue"
AfterCurve ==
    /\ pc = "afterCurve"
    /\ IF cur.intensity <= 0
       THEN OuterBreak /\ cur' = cur
       ELSE OuterContinue /\ cur' = [cur EXCEPT !.minT = 0]
    /\ UNCHANGED <<w, order, host, s, blocks, queue, raysProcessed, segments, hitBlockId, hist>>

Next ==
    \/ AdjustPositions
    \/ RestorePositions
    \/ Dequeue
    \/ PassDone
    \/ OuterExit
    \/ EnterCurve
    \/ Escape
    \/ HitBlock
    \/ HitReflector
    \/ HitPrism
    \/ HitBlackHole
    \/ CurveLeave
    \/ CurveAdvance
    \/ CurveHitBlock
    \/ CurveHitReflector
    \/ CurveHitPrism
    \/ CurveHitBlackHole
    \/ AfterCurve

Spec == Init /\ [][Next]_vars

\* stepSim runs the pass to completion within the tick: no step of it waits
LiveSpec == Spec /\ WF_vars(Next)

----------------------------------------------------------------------------
(* The same tick processed twice: as a stack (queue.pop()), then, from the *)
(* same start, as a FIFO (queue.shift()).                                  *)

\* the emitted segments as the renderer sees them
SegSet(segs) ==
    { [tr |-> segs[i].tr, a |-> segs[i].a, b |-> segs[i].b, intensity |-> segs[i].intensity] :
        i \in 1..Len(segs) }

\* a cap was reached in the pass that has just returned
CapReached == Len(segments) >= MAX_SEGMENTS \/ raysProcessed >= MAX_RAYS

\* the bodies that lost health in the pass
Damaged == { id \in DOMAIN InitialBlocks(w) : id \notin DOMAIN blocks \/ blocks[id] # InitialBlocks(w)[id] }

RunFifo ==
    /\ pc = "done"
    /\ order = "stack"
    /\ order' = "fifo"
    /\ s' = InitialRun(w)
    /\ blocks' = InitialBlocks(w)
    /\ queue' = InitialQueue(w)
    /\ raysProcessed' = 0
    /\ segments' = <<>>
    /\ hitBlockId' = 0
    /\ cur' = NoRay
    /\ guard' = 0
    /\ step' = 0
    /\ pc' = "adjust"
    /\ hist' = [NoHistory EXCEPT
                  !.stack = [done |-> TRUE, segments |-> SegSet(segments),
                             trace |-> [i \in 1..Len(segments) |-> segments[i].tr],
                             blocks |-> blocks, hitBlockId |-> hitBlockId,
                             capped |-> CapReached,
                             destroyed |-> DOMAIN blocks # DOMAIN InitialBlocks(w),
                             damaged |-> Damaged]]
    /\ UNCHANGED <<w, host>>

NextOrder == Next \/ RunFifo

SpecOrder == Init /\ [][NextOrder]_vars

----------------------------------------------------------------------------
(* The scene query on its own: one call of raycastSceneThick.              *)

QueryScenes ==
    { {},
      {BlockAt(1, Column, 6000, 50), MirrorAt(31, Column, 9000)},
      {PrismAt(11, Column, 4000, <<45, -45>>), BlockAt(1, Column, 6000, 50)},
      {HoleAt(21, Column, 7000)},
      {HoleAt(21, Column, 7000), MirrorAt(31, Column, 6500 - 800)},
      \* a body only the offset rays touch
      {[BlockAt(1, Column, 6000, 50) EXCEPT !.ch = << <<>>, <<6000, 6800>>, <<5900, 6900>> >>]},
      \* a body wholly above the visible area, and a prism
      {[BlockAt(1, Column, 6000, 50) EXCEPT !.maxY = -1], PrismAt(11, Column, 9000, <<0, 90>>)},
      \* a gravity-well tile only an offset ray touches
      {[HoleAt(21, Column, 7000) EXCEPT !.ch = << <<>>, <<6600, 7400>>, <<>> >>]} }

QueryOrigins == {800, 4100, 5850, 6550, 6950, 9100, 11950}

InitQuery ==
    /\ \E things \in QueryScenes, bw \in {0, 240} :
         w = [Tick("query", things, Stats(0, 0, FALSE)) EXCEPT !.beamWidth = bw]
    /\ \E live \in {TRUE, FALSE} :
         blocks = IF live THEN InitialBlocks(w) ELSE <<>>
    /\ s = InitialRun(w)
    /\ host = <<>>
    /\ \E o \in QueryOrigins, d \in {1, -1}, minT \in {0, STEP_MIN_T, EPS + (beamRadius * 3) \div 4},
          maxT \in {stepLen, 18892}, ig \in {-1, 11} :
         cur = [tr |-> Column, o |-> o, d |-> d, intensity |-> IntensityOne, bouncesLeft |-> 0,
                minT |-> minT, ignorePrismId |-> ig, ray |-> 1, parent |-> 0, born |-> 0,
                maxT |-> maxT]
    /\ queue = <<>>
    /\ raysProcessed = 0
    /\ segments = <<>>
    /\ hitBlockId = 0
    /\ guard = 0
    /\ step = 0
    /\ pc = "query"
    /\ order = "stack"
    /\ hist = NoHistory

Query ==
    /\ pc = "query"
    /\ pc' = "queried"
    /\ hist' = [hist EXCEPT !.result =
                  raycastSceneThick(scene, cur.tr, cur.o, cur.d, DOMAIN blocks, cur.maxT, beamRadius,
                                    cur.minT, cur.ignorePrismId)]
    /\ UNCHANGED <<w, order, host, s, blocks, queue, raysProcessed, segments, hitBlockId, cur, guard, step>>

NextQuery == Query

SpecQuery == InitQuery /\ [][NextQuery]_vars

----------------------------------------------------------------------------
(* The boundary extractor (outline) and the polygon collision of one body. *)
(* Lengths here are in px; a cell is cellSize px wide.  The rays run along *)
(* the mid-lines of the cell rows and columns, where a boundary edge is    *)
(* met on the part that the corner rounding leaves (the rounding cuts at   *)
(* most half an edge less 0.6 px from each end), or along the grid line    *)
(* through the local origin.                                               *)

GridMax == 2

\* the cells array of a cell set, in row-major order
RECURSIVE CellSeq(_)
CellSeq(S) ==
    IF S = {} THEN <<>>
    ELSE LET c == CHOOSE c \in S : \A e \in S : c[2] < e[2] \/ (c[2] = e[2] /\ c[1] <= e[1])
         IN  <<c>> \o CellSeq(S \ {c})

CellSets == SUBSET ((0..GridMax) \X (0..GridMax))

has(cells, x, y) == \E i \in DOMAIN cells : cells[i] = <<x, y>>

Edge(a, b) == [a |-> a, b |-> b]

\* the four edges with the left edge turned downwards
cellEdgesLeftDown(cells, c) ==
    LET x == c[1]
        y == c[2]
    IN  (IF ~has(cells, x, y - 1) THEN <<Edge(<<x, y>>, <<x + 1, y>>)>> ELSE <<>>)
        \o (IF ~has(cells, x + 1, y) THEN <<Edge(<<x + 1, y>>, <<x + 1, y + 1>>)>> ELSE <<>>)
        \o (IF ~has(cells, x, y + 1) THEN <<Edge(<<x + 1, y + 1>>, <<x, y + 1>>)>> ELSE <<>>)
        \o (IF ~has(cells, x - 1, y) THEN <<Edge(<<x, y>>, <<x, y + 1>>)>> ELSE <<>>)

\* the directed edges cell c contributes: top, right, bottom, left, each only
\* without a neighbour on that side
cellEdges(cells, c) ==
    LET x == c[1]
        y == c[2]
    IN  (IF ~has(cells, x, y - 1) THEN <<Edge(<<x, y>>, <<x + 1, y>>)>> ELSE <<>>)
        \o (IF ~has(cells, x + 1, y) THEN <<Edge(<<x + 1, y>>, <<x + 1, y + 1>>)>> ELSE <<>>)
        \o (IF ~has(cells, x, y + 1) THEN <<Edge(<<x + 1, y + 1>>, <<x, y + 1>>)>> ELSE <<>>)
        \o (IF ~has(cells, x - 1, y) THEN <<Edge(<<x, y + 1>>, <<x, y>>)>> ELSE <<>>)

RECURSIVE edgesFrom(_, _)
edgesFrom(cells, i) ==
    IF i > Len(cells) THEN <<>> ELSE cellEdges(cells, cells[i]) \o edgesFrom(cells, i + 1)

\* lowest y, then lowest x; the first such edge
startEdge(edges) ==
    edges[CHOOSE i \in DOMAIN edges : \A j \in DOMAIN edges :
            \/ edges[i].a[2] < edges[j].a[2]
            \/ (edges[i].a[2] = edges[j].a[2] /\ edges[i].a[1] < edges[j].a[1])
            \/ (edges[i].a = edges[j].a /\ i <= j)]

\* byStart.get(key(p)): the edges that start at p, in array order
nextEdges(edges, p) == { i \in DOMAIN edges : edges[i].a = p }

\* the while loop of buildCellLoop
RECURSIVE walk(_, _, _, _)
walk(edges, loop, e, g) ==
    IF ~(g < Len(edges) + 8) THEN loop
    ELSE LET loop2 == Append(loop, e.b)
         IN  IF e.b = loop2[1] THEN loop2
             ELSE IF nextEdges(edges, e.b) = {} THEN loop2
             ELSE walk(edges, loop2, edges[MinOf(nextEdges(edges, e.b))], g + 1)

\* a unit square returned for a body without edges
degenerateLoopSquare == << <<0, 0>>, <<1, 0>>, <<1, 1>>, <<0, 1>>, <<0, 0>> >>

\* what buildCellLoop returns when there are no edges
degenerateLoop == << <<0, 0>> >>

buildCellLoop(cells) ==
    LET edges == edgesFrom(cells, 1)
    IN  IF Len(edges) = 0 THEN degenerateLoop
        ELSE LET start == startEdge(edges)
                 loop  == walk(edges, <<start.a>>, start, 0)
             IN  IF loop[1] # loop[Len(loop)] THEN Append(loop, loop[1]) ELSE loop

cellSize == 40

computeLocalAabbPx(cells, cs) ==
    IF cells = <<>> THEN [minX |-> 0, minY |-> 0, maxX |-> 0, maxY |-> 0]
    ELSE [minX |-> MinOf({ cells[i][1] * cs : i \in DOMAIN cells }),
          minY |-> MinOf({ cells[i][2] * cs : i \in DOMAIN cells }),
          maxX |-> -MinOf({ -(cells[i][1] + 1) * cs : i \in DOMAIN cells }),
          maxY |-> -MinOf({ -(cells[i][2] + 1) * cs : i \in DOMAIN cells })]

\* buildPrimsForBlock: one segment per loop step of non-zero length, from the
\* m = max(0, n - 1) unique vertices, with the outward normal (dy, -dx); the body
\* is at pos = (0, 0)
buildPrimsForBlock(loop) ==
    LET m     == Max2(0, Len(loop) - 1)
        pt(i) == loop[(i % m) + 1]
    IN  { [a |-> <<pt(i)[1] * cellSize, pt(i)[2] * cellSize>>,
           b |-> <<pt(i + 1)[1] * cellSize, pt(i + 1)[2] * cellSize>>,
           normalOut |-> <<pt(i + 1)[2] - pt(i)[2], -(pt(i + 1)[1] - pt(i)[1])>>] :
          i \in { j \in 0..(m - 1) : pt(j) # pt(j + 1) } }

\* an axis-parallel ray: along axis "x" it starts at (o, line) and heads d in x
ShapeRays ==
    [axis : {"x", "y"}, line : {0, 20, 60}, o : {-20, 60}, d : {1, -1},
     minT : {0}, maxT : {1000}]

\* quickRejectRayAabb for such a ray: the line strictly within the box across the
\* ray (on the edge of the box 0 * Infinity is NaN and the test fails), and the
\* box not wholly behind
polyQuickReject(ray, box) ==
    LET lo  == IF ray.axis = "x" THEN box.minX ELSE box.minY
        hi  == IF ray.axis = "x" THEN box.maxX ELSE box.maxY
        lo2 == IF ray.axis = "x" THEN box.minY ELSE box.minX
        hi2 == IF ray.axis = "x" THEN box.maxY ELSE box.maxX
    IN  /\ lo2 < ray.line /\ ray.line < hi2
        /\ Max2(Dist(ray.o, ray.d, lo), Dist(ray.o, ray.d, hi)) >= 0

\* raySegment for such a ray: a parallel segment gives null, a crossing one its
\* distance when u is within [0, 1] and t >= 0
polyRaySegment(ray, sg) ==
    LET ax == IF ray.axis = "x" THEN 1 ELSE 2
        cr == IF ray.axis = "x" THEN 2 ELSE 1
    IN  IF sg.a[ax] # sg.b[ax] THEN {}
        ELSE IF ~(Min2(sg.a[cr], sg.b[cr]) <= ray.line /\ ray.line <= Max2(sg.a[cr], sg.b[cr])) THEN {}
        ELSE IF Dist(ray.o, ray.d, sg.a[ax]) < 0 THEN {}
        ELSE { [t |-> Dist(ray.o, ray.d, sg.a[ax]), normal |-> sg.normalOut] }

\* raycastScenePolys for one body with the given loop and local AABB
raycastPoly(ray, loop, box) ==
    IF box.maxY < 0 \/ ~polyQuickReject(ray, box) THEN {}
    ELSE LET hs == { h \in UNION { polyRaySegment(ray, sg) : sg \in buildPrimsForBlock(loop) } :
                       h.t >= ray.minT /\ h.t <= ray.maxT }
         IN  { h \in hs : \A g \in hs : h.t <= g.t }

InitShape ==
    /\ \E S \in CellSets : w = [name |-> "shape", cells |-> CellSeq(S)]
    /\ s = <<>>
    /\ host = <<>>
    /\ blocks = <<>>
    /\ queue = <<>>
    /\ raysProcessed = 0
    /\ segments = <<>>
    /\ hitBlockId = 0
    /\ cur = NoRay
    /\ guard = 0
    /\ step = 0
    /\ pc = "cells"
    /\ order = "stack"
    /\ hist = [loop |-> <<>>, localAabb |-> computeLocalAabbPx(<<>>, cellSize), result |-> {}]

\* spawn: the loop and the local AABB are built from the cells
SpawnShape ==
    /\ pc = "cells"
    /\ pc' = "spawned"
    /\ hist' = [hist EXCEPT !.loop = buildCellLoop(w.cells),
                            !.localAabb = computeLocalAabbPx(w.cells, cellSize)]
    /\ UNCHANGED <<w, order, host, s, blocks, queue, raysProcessed, segments, hitBlockId, cur, guard, step>>

\* one polygon query against the body
QueryShape ==
    /\ pc = "spawned"
    /\ pc' = "shot"
    /\ \E ray \in ShapeRays :
         /\ cur' = ray
         /\ hist' = [hist EXCEPT !.result = raycastPoly(ray, hist.loop, hist.localAabb)]
    /\ UNCHANGED <<w, order, host, s, blocks, queue, raysProcessed, segments, hitBlockId, guard, step>>

NextShape == SpawnShape \/ QueryShape

SpecShape == InitShape /\ [][NextShape]_vars

----------------------------------------------------------------------------
(* Properties of the pass.                                                 *)

\* C1: the pass always terminates: every work item runs at most GUARD_MAX outer
\* iterations and MAX_CURVE_STEPS curve steps per curve loop, and every run of
\* the pass reaches its return.
C1_Terminates ==
    /\ [](guard <= GUARD_MAX /\ step <= MAX_CURVE_STEPS)
    /\ <>(pc = "done")

\* facing walls with penalty-free bounces: the ray ran out the step guard and the
\* pass returned
C1_Witness ==
    pc = "done" /\ guard = GUARD_MAX /\ w.stats.noWallPenalty /\ hist.bounce.n >= GUARD_MAX

\* C2: at most MAX_SEGMENTS segments are emitted and at most MAX_RAYS work items
\* dequeued; work items are never created beyond what the cap lets the pass
\* dequeue.
C2_Caps ==
    /\ Len(segments) <= MAX_SEGMENTS
    /\ raysProcessed <= MAX_RAYS
    /\ raysProcessed + Len(queue) <= MAX_RAYS

\* both caps reached in one tick, a split dropped, and the pass returned
C2_Witness ==
    /\ pc = "done"
    /\ Len(segments) = MAX_SEGMENTS
    /\ raysProcessed = MAX_RAYS
    /\ hist.split.added < hist.split.n

\* the newest segment is no brighter than every earlier segment of its work item
\* and than the segment its work item was split off at
ChainNonIncreasing ==
    Len(segments) > 0 =>
        LET j == Len(segments)
        IN  /\ \A i \in 1..(j - 1) :
                  segments[i].ray = segments[j].ray => segments[j].intensity <= segments[i].intensity
            /\ segments[j].from > 0 => segments[j].intensity <= segments[segments[j].from].intensity

\* the last bounce: equal intensity when penalty-free, strictly less otherwise
BounceDecays ==
    hist.bounce.n > 0 =>
        IF hist.bounce.free THEN hist.bounce.after = hist.bounce.before
        ELSE hist.bounce.after < hist.bounce.before

C4_AllExits ==
    hist.split.n > 0 => (hist.split.added = hist.split.n /\ hist.split.same)

\* C4 (amended): every split enqueues as many children as the prism has exit
\* angles or as the work-item cap still has room for, whichever is less, each
\* with the parent's intensity and bounce budget.
C4_ExitsUpToCap ==
    hist.split.n > 0 =>
        /\ hist.split.added = Min2(hist.split.n, Max2(0, hist.split.room))
        /\ hist.split.same

\* a split of a four-way prism that the cap cut short
C4_Witness == hist.split.n = 4 /\ hist.split.added > 0 /\ hist.split.added < hist.split.n

\* C5: after a work item hits a prism it emits no further segment, deals no
\* damage and splits no more.
C5_PrismEndsItem == \A e \in hist.late : e.term # "prism"

\* C6: after a work item hits a gravity-well core it produces no later segment,
\* damage, bounce or split.
C6_CoreEndsRay == \A e \in hist.late : e.term # "blackHole"

\* C7: every hit on a body reduces its health once by dps * dt * intensity; with
\* a bounce budget of 0 the work item ends at the hit; a zero-width, zero-bounce
\* beam at a single body gives one hit, one segment, one reduction by dps * dt.
C7_BodyHit ==
    /\ hist.damage.id # 0 =>
          hist.damage.after = Max2(0, hist.damage.before - w.dpsDt * hist.damage.intensity)
    /\ \A e \in hist.late : e.term # "block"
    /\ (pc = "done" /\ w.name = "thin" /\ w.stats.maxBounces = 0) =>
          /\ hist.hits = 1
          /\ Len(segments) = 1
          /\ hist.damage.before - hist.damage.after = w.dpsDt * IntensityOne

\* C8: between two bounces a work item never re-enters curved integration for a
\* gravity well it has entered before.
C8_NoReentry == hist.reentered = {}

\* the entities of the queried track, and the live bodies and mirrors among them
QFeats == { e \in w.things : cur.tr \in e.trs }
QSolids == { e \in QFeats : (e.kind = "block" /\ e.id \in DOMAIN blocks) \/ e.kind = "mirror" }

\* every distance at which an offset ray of the beam crosses the boundary of a
\* live body, a mirror, a prism other than the ignored one or a gravity-well
\* tile, or reaches a wall it heads for
Crossings ==
    UNION { { Dist(cur.o, cur.d, x) :
                x \in UNION { {e.ch[k][1], e.ch[k][2]} :
                                e \in { f \in QSolids \cup { g \in QFeats : g.kind \in {"prism", "blackHole"}
                                                                              /\ g.id # cur.ignorePrismId } :
                                           f.ch[k] # <<>> } }
                     \cup { m.pos : m \in { n \in Walls(w, cur.tr, cur.o) : n.face \in {0, cur.d} } } } :
            k \in Offsets(beamRadius) }

\* C9 (as stated): the query returns the least crossing distance within
\* [minT, maxT], and none only when there is no crossing in that range.
C9_NearestCrossing ==
    pc = "queried" =>
        LET A == { t \in Crossings : t >= cur.minT /\ t <= cur.maxT }
        IN  IF A = {} THEN hist.result.kind = "none"
            ELSE hist.result.kind # "none" /\ hist.result.t = MinOf(A)

\* the distances the query accepts: boundary crossings of visible live bodies and
\* mirrors and walls ahead within [minT, maxT] on any offset ray; crossings within
\* [minT, maxT] of visible prisms that are not ignored and do not contain the
\* offset ray's origin; for visible gravity-well tiles, on the centre ray only,
\* 0 from inside the tile and else the entry distance within [0, maxT]
Accepted ==
    UNION { { t \in { Dist(cur.o, cur.d, x) :
                      x \in UNION { {e.ch[k][1], e.ch[k][2]} :
                                      e \in { f \in QSolids : ~(f.maxY < 0) /\ f.ch[k] # <<>> }
                                             \cup { f \in QFeats : /\ f.kind = "prism"
                                                                   /\ f.id # cur.ignorePrismId
                                                                   /\ ~(f.maxY < 0)
                                                                   /\ f.ch[k] # <<>>
                                                                   /\ ~(f.ch[k][1] < cur.o /\ cur.o < f.ch[k][2]) } }
                           \cup { m.pos : m \in { n \in Walls(w, cur.tr, cur.o) : n.face \in {0, cur.d} } } } :
                t >= cur.minT /\ t <= cur.maxT } :
            k \in Offsets(beamRadius) }
    \cup UNION { IF f.ch[1][1] < cur.o /\ cur.o < f.ch[1][2] THEN {0}
                 ELSE { t \in { Min2(Dist(cur.o, cur.d, f.ch[1][1]), Dist(cur.o, cur.d, f.ch[1][2])) } :
                          t >= 0 /\ t <= cur.maxT } :
                 f \in { g \in QFeats : g.kind = "blackHole" /\ ~(g.maxY < 0) /\ g.ch[1] # <<>> } }

\* C9 (amended): the query returns the least accepted distance, and none only
\* when no distance is accepted.
C9_NearestAccepted ==
    pc = "queried" =>
        IF Accepted = {} THEN hist.result.kind = "none"
        ELSE hist.result.kind # "none" /\ hist.result.t = MinOf(Accepted)

\* a thick ray with a body nearer than the mirror and the wall behind it
C9_Witness ==
    /\ pc = "queried"
    /\ hist.result.kind = "block"
    /\ Cardinality(Accepted) > 2
    /\ beamRadius > 0

\* the comparison point: both passes have returned
Compared == pc = "done" /\ order = "fifo" /\ hist.stack.done

NoCapReached == ~hist.stack.capped /\ ~CapReached

OwnPrism == { p \in s.features : p.kind = "prism" /\ p.id = cur.ignorePrismId /\ cur.tr \in p.trs }

\* C11: every child of a split at prism P carries P's id as its ignore tag; no
\* scene query made for a work item, in the outer loop or in a curve step,
\* reports the prism the item is tagged with; no work item splits at the prism it
\* came from.
C11_ChildIgnoresPrism ==
    /\ hist.split.n > 0 => (hist.split.tagged /\ hist.split.prism # hist.split.ignored)
    /\ (pc = "outer" /\ cur.ignorePrismId >= 0 /\ hit.kind = "prism") => hit.id # cur.ignorePrismId
    /\ (pc = "curve" /\ cur.ignorePrismId >= 0 /\ stepHit.kind = "prism") =>
          stepHit.id # cur.ignorePrismId

\* a straight-on child is traced from inside the circle of the prism it came
\* from, on all three offset rays, and its query reports something else
C11_Witness ==
    /\ pc = "outer"
    /\ beamRadius > 0
    /\ \E p \in OwnPrism : \A k \in Offsets(beamRadius) : p.ch[k][1] < cur.o /\ cur.o < p.ch[k][2]
    /\ hit.kind # "none"


\* C12: a wall bounce under the no-wall-penalty flag keeps intensity and bounce
\* budget; every mirror bounce, and every wall bounce with the flag clear,
\* multiplies intensity by the falloff factor and takes one from the budget; a
\* work item ends at a mirror or wall only when such a bounce finds the budget
\* at 0, and no such bounce is taken from a budget of 0.
C12_WallPenalty ==
    /\ hist.bounce.kind \in {"wall", "mirror"} =>
          IF hist.bounce.kind = "wall" /\ w.stats.noWallPenalty
          THEN /\ hist.bounce.after = hist.bounce.before
               /\ hist.bounce.leftAfter = hist.bounce.left
          ELSE /\ hist.bounce.after * 100 = hist.bounce.before * w.stats.bounceFalloff
               /\ hist.bounce.leftAfter = hist.bounce.left - 1
               /\ hist.bounce.left > 0
    /\ hist.stop.kind # "none" =>
          /\ hist.stop.left <= 0
          /\ ~(hist.stop.kind = "wall" /\ w.stats.noWallPenalty)

\* under the flag, a ray dimmed by a mirror bounce takes a wall bounce for free
C12_Witness ==
    /\ w.stats.noWallPenalty
    /\ hist.bounce.kind = "wall"
    /\ hist.bounce.n >= 2
    /\ hist.bounce.before < IntensityOne
    /\ hist.bounce.after = hist.bounce.before
    /\ hist.bounce.leftAfter = hist.bounce.left

\* the tick of scenario B has returned
ScenarioBDone == pc = "done" /\ w.name = "scenarioB"

\* two segments, the second 0.8 times as bright as the first and ending on a
\* wall after a single body hit
TwoSegments ==
    /\ Len(segments) = 2
    /\ segments[2].intensity * 100 = segments[1].intensity * 80
    /\ hist.hits = 1
    /\ hist.stop.kind = "wall"

\* C13 (as stated): with max-bounces 1 and falloff 0.8, a beam that hits a body
\* and then a wall emits exactly two segments, the second at 0.8 times the
\* intensity of the first.
C13_ScenarioB == ScenarioBDone => TwoSegments

\* C13 (amended): the same, with the no-wall-penalty flag clear.
C13_ScenarioBWithPenalty == (ScenarioBDone /\ ~w.stats.noWallPenalty) => TwoSegments

\* scenario B ran to the end with the flag clear
C13_Witness == ScenarioBDone /\ ~w.stats.noWallPenalty /\ TwoSegments /\ hitBlockId = 1

\* the distances of the hits that offset ray k gets from bodies, mirrors, prisms
\* and walls, and from gravity-well tiles taken on offset ray ka
RayTs(k, ka) ==
    { h.t : h \in { x \in { raycastScenePolys(cur.o, cur.d, QSolids, k, cur.maxT, cur.minT),
                            raycastSceneCircles(cur.o, cur.d, { f \in QFeats : f.kind = "prism" }, k,
                                                cur.maxT, cur.minT, cur.ignorePrismId),
                            raycastSceneWalls(w, cur.tr, cur.o, cur.d, k, cur.maxT, cur.minT) } :
                     x.kind # "none" } }
    \cup { t \in UNION { rayAabb(cur.o, cur.d, a.ch[ka]) :
                           a \in { f \in QFeats : f.kind = "blackHole" /\ ~(f.maxY < 0) /\ f.ch[ka] # <<>> } } :
             t <= cur.maxT }

\* the rays of the beam: the centreline, and both offset rays of a thick beam
Rays == IF beamRadius > 0 THEN {1, 2, 3} ELSE {1}

\* the query's result is the nearest of the distances T, none when T is empty
ResultNearest(T) ==
    IF T = {} THEN hist.result.kind = "none"
    ELSE hist.result.kind # "none" /\ hist.result.t = MinOf(T)

\* at zero width the result is that of the centreline query
ThinIsCentre ==
    beamRadius <= 0 =>
        LET c == OffsetHit(w, cur.tr, cur.o, cur.d, DOMAIN blocks, 1, cur.maxT, cur.minT,
                           cur.ignorePrismId)
        IN  /\ hist.result.kind = c.kind
            /\ hist.result.kind # "none" => (hist.result.id = c.id /\ hist.result.t = c.t)

\* C14 (as stated): the thick query reports the nearest hit over the three
\* parallel rays against every entity kind, gravity-well tiles included; at zero
\* width it equals the centreline query.
C14_ThreeRaysAllKinds ==
    pc = "queried" =>
        /\ ResultNearest(UNION { RayTs(k, k) : k \in Rays })
        /\ ThinIsCentre

\* C14 (amended): the thick query reports the nearest hit over the three
\* parallel rays against bodies, mirrors, prisms and walls, and over the
\* centreline alone against gravity-well tiles; at zero width it equals the
\* centreline query.
C14_ThreeRaysCentreHoles ==
    pc = "queried" =>
        /\ ResultNearest(UNION { RayTs(k, 1) : k \in Rays })
        /\ ThinIsCentre

\* a thick ray whose centreline misses the body that an offset ray hits
C14_Witness ==
    /\ pc = "queried"
    /\ beamRadius > 0
    /\ hist.result.kind = "block"
    /\ \E e \in QSolids : e.id = hist.result.id /\ e.ch[1] = <<>>

\* the entities whose bottom edge is above y = 0
AboveIds == { e.id : e \in { f \in w.things : f.maxY < 0 } }

\* C15: an entity wholly above the visible area is never the hit of a scene
\* query of the pass, in the outer loop or in a curve step, is never damaged or
\* split at, and its influence field never switches a ray to curved integration.
C15_AboveIsInert ==
    /\ (pc = "outer" /\ hit.kind \notin {"none", "wall"}) => hit.id \notin AboveIds
    /\ (pc = "curve" /\ stepHit.kind \notin {"none", "wall"}) => stepHit.id \notin AboveIds
    /\ hist.entered \cap AboveIds = {}
    /\ hist.damage.id \notin AboveIds
    /\ hist.split.prism \notin AboveIds
    /\ hist.result.kind \notin {"none", "wall"} => hist.result.id \notin AboveIds

\* a ray traced straight from inside the influence circle of a hole above the
\* arena
C15_Witness ==
    /\ pc = "outer"
    /\ guard > 0
    /\ hist.entered = {}
    /\ \E h \in w.things : /\ h.kind = "blackHole" /\ h.maxY < 0
                            /\ h.fch[1][1] < cur.o /\ cur.o < h.fch[1][2]

\* the visible gravity-well tiles that strictly contain the origin of the query
TilesAround ==
    { f \in QFeats : /\ f.kind = "blackHole" /\ ~(f.maxY < 0) /\ f.ch[1] # <<>>
                     /\ f.ch[1][1] < cur.o /\ cur.o < f.ch[1][2] }

\* C16: from strictly inside an AABB, rayAabb gives t = 0 with normal -d; the
\* AABB query accepts this hit on a gravity-well tile whatever minT is, and the
\* scene query reports the tile at t = 0.
C16_InsideTile ==
    pc = "queried" =>
        \A a \in TilesAround :
            /\ rayAabb(cur.o, cur.d, a.ch[1]) = {0}
            /\ rayAabbNormal(cur.o, cur.d, a.ch[1]) = -cur.d
            /\ LET c == raycastSceneAabbs(cur.o, cur.d, {a}, cur.maxT, cur.minT)
               IN  c.kind = "blackHole" /\ c.id = a.id /\ c.t = 0
            /\ hist.result.kind = "blackHole" /\ hist.result.id = a.id /\ hist.result.t = 0

\* a query with the raised minimum travel of a fresh bounce, from inside a tile
C16_Witness ==
    /\ pc = "queried"
    /\ TilesAround # {}
    /\ cur.minT = EPS + (beamRadius * 3) \div 4
    /\ cur.minT > 0
    /\ hist.result.kind = "blackHole" /\ hist.result.t = 0

\* C17: for an empty cell set the boundary extractor returns no point and no
\* loop.
C17_EmptyIsDegenerate == (pc # "cells" /\ w.cells = <<>>) => hist.loop = <<>>

\* the distinct vertices of the body's loop
LoopVertices == { hist.loop[i] : i \in DOMAIN hist.loop }

\* C18: a body with an empty cell set, or with a loop of fewer than three
\* distinct vertices or a loop that does not close, has no collision primitives
\* and is never the hit of a polygon query.
C18_MalformedExcluded ==
    (/\ pc # "cells"
     /\ \/ w.cells = <<>>
        \/ Cardinality(LoopVertices) < 3
        \/ hist.loop[1] # hist.loop[Len(hist.loop)]) =>
        /\ buildPrimsForBlock(hist.loop) = {}
        /\ hist.result = {}

\* the body without cells was queried by a ray along the grid line through its
\* local origin, and gave no hit
C18_Witness ==
    /\ pc = "shot"
    /\ w.cells = <<>>
    /\ cur.line = 0
    /\ Max2(Dist(cur.o, cur.d, hist.localAabb.minX), Dist(cur.o, cur.d, hist.localAabb.maxX)) >= 0
    /\ hist.result = {}

\* the cell set
Filled == { w.cells[i] : i \in DOMAIN w.cells }

Adjacent(c, e) ==
    \/ (c[1] = e[1] /\ (c[2] - e[2]) \in {1, -1})
    \/ (c[2] = e[2] /\ (c[1] - e[1]) \in {1, -1})

\* the cells of S that can be reached from R over shared sides
RECURSIVE Grow(_, _)
Grow(R, S) ==
    LET R2 == R \cup { c \in S : \E r \in R : Adjacent(c, r) }
    IN  IF R2 = R THEN R ELSE Grow(R2, S)

Connected4(S) == S # {} /\ Grow({CHOOSE c \in S : TRUE}, S) = S

\* no hole: the empty cells, out to a margin around the grid, are 4-connected
HoleFree(S) == Connected4(((-1..(GridMax + 1)) \X (-1..(GridMax + 1))) \ S)

\* the four sides of cell c, each with the cell beyond it
Sides(c) ==
    { [side |-> {<<c[1], c[2]>>, <<c[1] + 1, c[2]>>}, beyond |-> <<c[1], c[2] - 1>>],
      [side |-> {<<c[1] + 1, c[2]>>, <<c[1] + 1, c[2] + 1>>}, beyond |-> <<c[1] + 1, c[2]>>],
      [side |-> {<<c[1], c[2] + 1>>, <<c[1] + 1, c[2] + 1>>}, beyond |-> <<c[1], c[2] + 1>>],
      [side |-> {<<c[1], c[2]>>, <<c[1], c[2] + 1>>}, beyond |-> <<c[1] - 1, c[2]>>] }

\* the sides between a filled cell and an empty one, as pairs of end points
BoundarySides == { t.side : t \in { u \in UNION { Sides(c) : c \in Filled } : u.beyond \notin Filled } }

\* the cell beside loop step i on the (dy, -dx) side and the cell on the other
\* side, from the mid-point of the step in doubled coordinates
SideCell(i, sgn) ==
    LET a  == hist.loop[i]
        b  == hist.loop[i + 1]
        dx == b[1] - a[1]
        dy == b[2] - a[2]
    IN  <<(a[1] + b[1] + sgn * dy - 1) \div 2, (a[2] + b[2] - sgn * dx - 1) \div 2>>

\* C19: for a non-empty, 4-connected, hole-free cell set the loop is closed, its
\* steps are the boundary sides, each once, the cell on the (dy, -dx) side of
\* every step is empty (and the cell on the other side filled), and a single
\* cell gives its four corners and the start again.
C19_ClosedOrientedLoop ==
    (pc = "spawned" /\ Connected4(Filled) /\ HoleFree(Filled)) =>
        LET n == Len(hist.loop)
        IN  /\ n >= 5
            /\ hist.loop[1] = hist.loop[n]
            /\ { {hist.loop[i], hist.loop[i + 1]} : i \in 1..(n - 1) } = BoundarySides
            /\ n - 1 = Cardinality(BoundarySides)
            /\ \A i \in 1..(n - 1) : SideCell(i, 1) \notin Filled /\ SideCell(i, -1) \in Filled
            /\ Cardinality(Filled) = 1 =>
                  LET c == w.cells[1]
                  IN  hist.loop = << <<c[1], c[2]>>, <<c[1] + 1, c[2]>>, <<c[1] + 1, c[2] + 1>>,
                                     <<c[1], c[2] + 1>>, <<c[1], c[2]>> >>

\* a five-cell body with a concave corner: a loop of twelve steps
C19_Witness ==
    /\ pc = "spawned"
    /\ Connected4(Filled) /\ HoleFree(Filled)
    /\ Cardinality(Filled) = 5
    /\ Len(hist.loop) = 13
    /\ hist.loop[1] = hist.loop[13]

\* C20: when the pass returns, hitBlockId is the body that the emitter's own
\* work item ended on (hist.primary), and null (0) when that work item did not
\* end on a body.
C20_HighlightIsPrimaryEnd == pc = "done" => hitBlockId = hist.primary
\* C21: static features are read-only during the propagation pass: the pass adds,
\* removes and alters no feature, and once the tick has returned every feature and
\* every surviving body is at the logical position it had before the pass.
SamePositions ==
    \A id \in (DOMAIN blocks \cup { f.id : f \in s.features }) \cap DOMAIN InitialRun(w).pos :
        s.pos[id] = InitialRun(w).pos[id]

C21_FeaturesReadOnly ==
    /\ pc \in {"adjust", "while", "outer", "curve", "afterCurve", "restore", "done"} =>
         s.features = InitialRun(w).features
    /\ pc = "done" => SamePositions

\* C24: every work item that enqueueRay accepts is dequeued and traced in the same
\* tick unless the segment cap is reached first, and the items already dequeued plus
\* those still queued never exceed MAX_RAYS.
C24_AcceptedAreTraced ==
    /\ raysProcessed + Len(queue) = hist.created
    /\ raysProcessed + Len(queue) <= MAX_RAYS
    /\ (pc \in {"restore", "done"} /\ Len(segments) < MAX_SEGMENTS) =>
         (Len(queue) = 0 /\ raysProcessed = hist.created)

\* the pass has returned with the work-item cap used up, a split cut short by it,
\* nothing left in the queue and segments to spare
C24_Witness ==
    /\ pc = "done"
    /\ hist.created = MAX_RAYS
    /\ raysProcessed = MAX_RAYS
    /\ Len(queue) = 0
    /\ Len(segments) < MAX_SEGMENTS
    /\ hist.split.added < hist.split.n

\* C25: a body whose health drops to 0 or below leaves the live collection in the
\* same damage step: the destroyed counter goes up by exactly one per body, no later
\* work item of the tick hits or damages it, and every live body has health above 0.
C25_DeadBodiesLeave ==
    /\ \A id \in DOMAIN blocks : blocks[id] > 0
    /\ s.blocksDestroyed = Cardinality(DOMAIN InitialBlocks(w) \ DOMAIN blocks)
    /\ (pc = "outer" /\ hit.kind = "block") => hit.id \in DOMAIN blocks
    /\ (pc = "curve" /\ stepHit.kind = "block") => stepHit.id \in DOMAIN blocks
    /\ hist.damage.id # 0 => hist.damage.before > 0

\* a body destroyed by one work item; a later work item went through where it was
\* and damaged the body behind it
C25_Witness ==
    /\ pc = "done"
    /\ s.blocksDestroyed = 1
    /\ 1 \notin DOMAIN blocks
    /\ hist.damage.id = 2
    /\ hist.hits >= 2

\* C29: a work item's bounce budget is never negative, and along any lineage from
\* the emitter's work item through prism children the number of budget-consuming
\* bounces never exceeds the configured max bounce count.
C29_BudgetAlongLineage ==
    /\ cur.bouncesLeft >= 0
    /\ \A i \in DOMAIN queue : queue[i].bouncesLeft >= 0
    /\ hist.lineage <= w.stats.maxBounces
    /\ \A r \in DOMAIN hist.inherit : hist.inherit[r] <= w.stats.maxBounces
    /\ pc \in {"outer", "curve", "afterCurve"} =>
         hist.lineage + cur.bouncesLeft = w.stats.maxBounces

\* a prism child whose parent had bounced before the split has used up what was left
C29_Witness ==
    /\ cur.parent # 0
    /\ cur.ray \in DOMAIN hist.inherit
    /\ hist.inherit[cur.ray] >= 1
    /\ hist.lineage > hist.inherit[cur.ray]
    /\ hist.lineage = w.stats.maxBounces
    /\ cur.bouncesLeft = 0

-----------------------------------------------------------------------------
(* The run from frame to frame: the spawn director, the ids, the upgrade    *)
(* chooser and the life-loss wipe.  s.blocks and s.features are the arrays  *)
(* of the run state; what a frame's timers and rolls decide is its input.   *)

MaxSpawns == 5       \* things spawned after Init

normalFirst == 15    \* the first blocksSpawned spawns of a run are bodies
featureGap == 3      \* bodies the director wants between two features
maxBlocksEarly == 4  \* the occupant cap at timeSec 0
livesStart == 3

computeXpCap(level) == IF 5 + level > 5 THEN 5 + level ELSE 5

Ids(arr) == { arr[i].id : i \in DOMAIN arr }

Without(arr, id) == SelectSeq(arr, LAMBDA e : e.id # id)

\* createInitialRunState, the fields a run-level specification uses; meltFx and
\* xpOrbs count effects that each carry 1 XP
createInitialRunState ==
    [paused |-> FALSE, gameOver |-> FALSE, levelUpActive |-> FALSE, pendingLevelUps |-> 0,
     xp |-> 0, xpCap |-> 5, level |-> 0, meltFx |-> 0, xpOrbs |-> 0,
     lives |-> livesStart, lifeLossFx |-> "null",
     blocks |-> <<>>, nextBlockId |-> 1, features |-> <<>>, nextFeatureId |-> 1,
     blocksSpawned |-> 0, normalBlocksSinceFeature |-> 3, stats |-> InitialStats]

\* rollFeatureKind: 'blackHole', 'prism', 'mirror' or null
FeatureRolls == {"null", "blackHole", "prism", "mirror"}

\* a body that takes the id of the body before it
spawnBlockSameId(st) ==
    [st EXCEPT !.blocks = Append(@, [id |-> st.nextBlockId]),
               !.blocksSpawned = @ + 1,
               !.normalBlocksSinceFeature = Min2(3, @ + 1)]

spawnBlock(st) ==
    [st EXCEPT !.blocks = Append(@, [id |-> st.nextBlockId]),
               !.nextBlockId = @ + 1,
               !.blocksSpawned = @ + 1,
               !.normalBlocksSinceFeature = Min2(3, @ + 1)]

\* spawnMirror, spawnPrism and spawnBlackHole: the next feature id, and the count of
\* bodies since the last feature starts again
spawnFeature(st, kind) ==
    [st EXCEPT !.features = Append(@, [id |-> st.nextFeatureId, kind |-> kind]),
               !.nextFeatureId = @ + 1,
               !.normalBlocksSinceFeature = 0]

spawnBoardThing(st, kind) ==
    IF st.blocksSpawned < normalFirst THEN spawnBlock(st)
    ELSE IF kind # "null" /\ st.normalBlocksSinceFeature < featureGap THEN spawnBlock(st)
    ELSE IF kind \in {"mirror", "prism", "blackHole"} THEN spawnFeature(st, kind)
    ELSE spawnBlock(st)

\* spawnPrismAt as the director's counters see it: a prism with the next feature id
\* is pushed and nothing else is touched
spawnPrismAtTile(st) ==
    [st EXCEPT !.features = Append(@, [id |-> st.nextFeatureId, kind |-> "prism"]),
               !.nextFeatureId = @ + 1]

\* dealDamageAtHit when the hit brings body id to hp <= 0: a melt effect worth the
\* body's XP, the splitter roll, and the body leaves s.blocks
destroyBody(st, id, roll) ==
    LET melted == [st EXCEPT !.meltFx = @ + 1]
        split  == IF st.stats.splitterChance > 0 /\ roll THEN spawnPrismAtTile(melted)
                  ELSE melted
    IN  [split EXCEPT !.blocks = Without(@, id)]

\* the life-loss effect: "wipe" until wipeDur has passed, then the board is cleared
\* once and the banner stays until bannerDur
lifeLossStep(st, ends) ==
    IF st.lifeLossFx = "wipe" /\ ends
    THEN [st EXCEPT !.lifeLossFx = "banner", !.blocks = <<>>, !.features = <<>>,
                    !.xpOrbs = 0]
    ELSE IF st.lifeLossFx = "banner" /\ ends THEN [st EXCEPT !.lifeLossFx = "null"]
    ELSE st

levelUpTrigger(st) ==
    LET a == IF ~st.levelUpActive /\ st.xp >= st.xpCap
             THEN [st EXCEPT !.xp = @ - st.xpCap, !.pendingLevelUps = @ + 1]
             ELSE st
    IN  IF ~a.levelUpActive /\ a.pendingLevelUps > 0
        THEN [a EXCEPT !.levelUpActive = TRUE, !.paused = TRUE, !.pendingLevelUps = @ - 1]
        ELSE a

\* a body at the fail line: one life; out of lives the run is over, else the wipe
failLine(st) ==
    LET lost == [st EXCEPT !.lives = Max2(0, @ - 1)]
    IN  IF lost.lives <= 0
        THEN [lost EXCEPT !.gameOver = TRUE, !.paused = TRUE, !.levelUpActive = FALSE,
                          !.pendingLevelUps = 0, !.xpOrbs = 0]
        ELSE [lost EXCEPT !.lifeLossFx = "wipe"]

\* what a frame draws: whether the effect timer reaches its mark, whether the spawn
\* timer has run out (and the feature roll), whether melts and orbs finish, whether
\* a body has reached the fail line, the feature that has scrolled off, the body
\* the pass destroys and its splitter roll
NoInput ==
    [fxEnds |-> FALSE, spawnDue |-> FALSE, kind |-> "null", meltDone |-> FALSE,
     orbDone |-> FALSE, crossing |-> FALSE, gone |-> 0, hit |-> 0, roll |-> FALSE]

FrameInputs(st) ==
    { [NoInput EXCEPT !.fxEnds = e] : e \in IF st.lifeLossFx = "null" THEN {FALSE} ELSE {TRUE} }
    \cup { [NoInput EXCEPT !.spawnDue = TRUE, !.kind = k] : k \in FeatureRolls }
    \cup { [NoInput EXCEPT !.meltDone = TRUE], [NoInput EXCEPT !.orbDone = TRUE] }
    \cup { [NoInput EXCEPT !.crossing = TRUE] }
    \cup { [NoInput EXCEPT !.gone = f] : f \in Ids(st.features) }
    \cup { [NoInput EXCEPT !.hit = b, !.roll = r] :
             b \in { st.blocks[i].id : i \in DOMAIN st.blocks \cap {1, Len(st.blocks)} },
             r \in BOOLEAN }

\* stepSim without the geometry: the effect, the spawn, the XP pipeline, the level-up
\* trigger, the fail line, the features that scroll off, the pass
stepSimRun(st, in) ==
    LET a == lifeLossStep(st, in.fxEnds)
        b == IF in.spawnDue /\ Len(a.blocks) + Len(a.features) < maxBlocksEarly
             THEN spawnBoardThing(a, in.kind) ELSE a
        c == IF in.meltDone THEN [b EXCEPT !.xpOrbs = @ + b.meltFx, !.meltFx = 0] ELSE b
        d == IF in.orbDone THEN [c EXCEPT !.xp = @ + c.xpOrbs, !.xpOrbs = 0] ELSE c
        e == levelUpTrigger(d)
        f == [e EXCEPT !.features = Without(@, in.gone)]
        g == IF in.hit \in Ids(f.blocks) THEN destroyBody(f, in.hit, in.roll) ELSE f
    IN  IF a.lifeLossFx = "wipe" THEN a
        ELSE IF in.crossing /\ Len(e.blocks) > 0 THEN failLine(e)
        ELSE g

\* the history of the run's spawns: how many things have appeared, how many bodies
\* since the last feature, and whether a feature came among the first normalFirst
\* spawns or fewer than featureGap bodies after the feature before it
NoSpawns ==
    [total |-> 0, since |-> 0, anyFeature |-> FALSE, early |-> FALSE, close |-> FALSE,
     splitter |-> FALSE, steps |-> 0]

noteSpawns(h, st, nx) ==
    IF nx.nextFeatureId > st.nextFeatureId
    THEN [h EXCEPT !.total = @ + 1, !.since = 0, !.anyFeature = TRUE,
                   !.early = @ \/ h.total < normalFirst,
                   !.close = @ \/ (h.anyFeature /\ h.since < featureGap),
                   !.splitter = @ \/ (Len(nx.blocks) < Len(st.blocks)),
                   !.steps = @ + 1]
    ELSE IF nx.nextBlockId > st.nextBlockId
    THEN [h EXCEPT !.total = @ + 1, !.since = Min2(featureGap, @ + 1), !.steps = @ + 1]
    ELSE h

PassIdle ==
    /\ blocks = <<>>
    /\ queue = <<>>
    /\ raysProcessed = 0
    /\ segments = <<>>
    /\ hitBlockId = 0
    /\ cur = NoRay
    /\ guard = 0
    /\ step = 0
    /\ order = "stack"

\* a run that has spawned 14 bodies and destroyed 13 (13 XP: levels 1 and 2, 2 XP
\* over), with the splitter upgrade taken once or not at all
Veteran(chance) ==
    [createInitialRunState EXCEPT !.blocks = << [id |-> 14] >>, !.nextBlockId = 15,
                                  !.blocksSpawned = 14, !.xp = 2, !.level = 2,
                                  !.xpCap = computeXpCap(2),
                                  !.stats.splitterChance = chance]

InitSpawn ==
    /\ w = [name |-> "spawn"]
    /\ \/ s = createInitialRunState /\ hist = NoSpawns
       \/ \E chance \in {0, 1} :
            /\ s = Veteran(chance)
            /\ hist = [NoSpawns EXCEPT !.total = 14, !.since = featureGap]
    /\ host = <<>>
    /\ pc = "frame"
    /\ PassIdle

\* tick: if (!s.paused) stepSim(s, dtSec)
FrameSpawn ==
    /\ w.name = "spawn"
    /\ ~s.paused
    /\ \E in \in FrameInputs(s) :
         /\ (in.spawnDue \/ in.roll) => hist.steps < MaxSpawns
         /\ s' = stepSimRun(s, in)
         /\ hist' = noteSpawns(hist, s, s')
    /\ UNCHANGED <<w, blocks, queue, raysProcessed, segments, hitBlockId, cur, guard, step,
                   pc, order, host>>

\* the offers a card of the chooser can carry (as far as the spawns are concerned)
SpawnOffers ==
    { [type |-> "splitterChance", rarity |-> "epic"], [type |-> "bounces", rarity |-> "rare"] }

\* an upgrade card's onClick
ChooseUpgrade ==
    /\ w.name = "spawn"
    /\ s.levelUpActive
    /\ \E opt \in SpawnOffers :
         s' = [s EXCEPT !.stats = applyOffer(@, opt), !.level = @ + 1,
                        !.xpCap = computeXpCap(s.level + 1), !.levelUpActive = FALSE,
                        !.paused = FALSE]
    /\ UNCHANGED <<w, blocks, queue, raysProcessed, segments, hitBlockId, cur, guard, step,
                   pc, order, host, hist>>

\* restart, from the game-over overlay: a fresh run state in the same object
Restart ==
    /\ w.name = "spawn"
    /\ s.gameOver
    /\ s' = createInitialRunState
    /\ hist' = [NoSpawns EXCEPT !.steps = hist.steps]
    /\ UNCHANGED <<w, blocks, queue, raysProcessed, segments, hitBlockId, cur, guard, step,
                   pc, order, host>>

NextSpawn == FrameSpawn \/ ChooseUpgrade \/ Restart

SpecSpawn == InitSpawn /\ [][NextSpawn]_vars

-----------------------------------------------------------------------------
(* The host: the animation-frame loop, the Esc key, the pause button and    *)
(* the upgrade cards.  The page shows what the last render made of the hud  *)
(* state and of stateRef; a setHud from the frame loop is rendered later,   *)
(* a setState inside a key or click handler before the handler's task ends. *)

MaxLevel == 2        \* level-ups taken
MaxXp == 12          \* XP held

\* XP the orbs arriving in one frame deliver: none, a body's orb, a gold body's orb
Gains == {0, 1, 6}

\* what the JSX renders from the hud state and stateRef.current
render(st, hud) ==
    [pauseBtn |-> ~st.levelUpActive, hud |-> hud,
     pauseOverlay |-> hud.paused /\ ~st.levelUpActive /\ ~hud.gameOver,
     upgradeCards |-> st.levelUpActive]

HudOf(st) == [paused |-> st.paused, gameOver |-> st.gameOver]

\* a setHud inside a handler: rendered at once; an update still waiting from the
\* frame loop is replayed under it
flushSync(st, h, update) ==
    [hud |-> [n \in DOMAIN h.hud |-> IF n \in DOMAIN update THEN update[n] ELSE h.hud[n]],
     pending |-> IF h.pending = <<>> THEN <<>>
                 ELSE [n \in DOMAIN h.pending |->
                         IF n \in DOMAIN update THEN update[n] ELSE h.pending[n]],
     dom |-> render(st, [n \in DOMAIN h.hud |->
                           IF n \in DOMAIN update THEN update[n] ELSE h.hud[n]])]

\* stepSim as the host sees it: the life-loss effect, the XP that arrives, the
\* level-up trigger, the fail line
stepSimHost(st, in) ==
    LET a == lifeLossStep(st, in.fxEnds)
        d == [a EXCEPT !.xp = @ + in.gain]
        e == levelUpTrigger(d)
    IN  IF a.lifeLossFx = "wipe" THEN a
        ELSE IF in.crossing THEN failLine(e)
        ELSE e

HostInputs(st) ==
    { [fxEnds |-> st.lifeLossFx # "null", gain |-> 0, crossing |-> FALSE] }
    \cup { [fxEnds |-> FALSE, gain |-> g, crossing |-> FALSE] :
             g \in { x \in Gains : st.level < MaxLevel /\ st.xp + x <= MaxXp } }
    \cup { [fxEnds |-> FALSE, gain |-> 0, crossing |-> TRUE] }

InitHost ==
    /\ w = [name |-> "host"]
    /\ s = createInitialRunState
    /\ host = [hud |-> [paused |-> FALSE, gameOver |-> FALSE], pending |-> <<>>,
               dom |-> render(createInitialRunState, [paused |-> FALSE, gameOver |-> FALSE])]
    /\ hist = [ranPaused |-> FALSE, resumedBy |-> "none"]
    /\ pc = "frame"
    /\ PassIdle

\* tick: the engine unless paused, then setHud when the 100 ms bucket has changed
HostFrame ==
    /\ w.name = "host"
    /\ \E in \in HostInputs(s), bucket \in BOOLEAN :
         /\ s' = IF ~s.paused THEN stepSimHost(s, in) ELSE s
         /\ host' = IF bucket THEN [host EXCEPT !.pending = HudOf(s')] ELSE host
    /\ hist' = [hist EXCEPT !.ranPaused = @ \/ (~s.paused /\ s.paused)]
    /\ UNCHANGED <<w, blocks, queue, raysProcessed, segments, hitBlockId, cur, guard, step,
                   pc, order>>

\* the render of a setHud from the frame loop
Render ==
    /\ w.name = "host"
    /\ host.pending # <<>>
    /\ host' = [hud |-> host.pending, pending |-> <<>>, dom |-> render(s, host.pending)]
    /\ UNCHANGED <<w, blocks, queue, raysProcessed, segments, hitBlockId, cur, guard, step,
                   pc, order, s, hist>>

\* setPaused(paused): stateRef.current.paused = paused; setHud((h) => ({ ...h, paused }))
setPaused(paused, by) ==
    /\ s' = [s EXCEPT !.paused = paused]
    /\ host' = flushSync([s EXCEPT !.paused = paused], host, [paused |-> paused])
    /\ hist' = IF s.levelUpActive /\ s.paused /\ ~paused
               THEN [hist EXCEPT !.resumedBy = by] ELSE hist

\* onKeyDown, Escape
EscKey ==
    /\ w.name = "host"
    /\ IF s.levelUpActive \/ s.gameOver
       THEN UNCHANGED <<s, host, hist>>
       ELSE setPaused(~s.paused, "esc")
    /\ UNCHANGED <<w, blocks, queue, raysProcessed, segments, hitBlockId, cur, guard, step,
                   pc, order>>

\* the pause button's onClick, with the hud of the render that made the button
PauseClick ==
    /\ w.name = "host"
    /\ host.dom.pauseBtn
    /\ IF host.dom.hud.gameOver
       THEN UNCHANGED <<s, host, hist>>
       ELSE setPaused(~host.dom.hud.paused, "button")
    /\ UNCHANGED <<w, blocks, queue, raysProcessed, segments, hitBlockId, cur, guard, step,
                   pc, order>>

\* an upgrade card's onClick: no state of the component is set
CardClick ==
    /\ w.name = "host"
    /\ host.dom.upgradeCards
    /\ s.level < MaxLevel
    /\ \E opt \in SpawnOffers :
         s' = [s EXCEPT !.stats = applyOffer(@, opt), !.level = @ + 1,
                        !.xpCap = computeXpCap(s.level + 1), !.levelUpActive = FALSE,
                        !.paused = FALSE]
    /\ UNCHANGED <<w, blocks, queue, raysProcessed, segments, hitBlockId, cur, guard, step,
                   pc, order, host, hist>>

\* restart, from the pause overlay or the game-over overlay
RestartClick ==
    /\ w.name = "host"
    /\ host.dom.pauseOverlay \/ host.dom.hud.gameOver
    /\ s' = createInitialRunState
    /\ host' = flushSync(createInitialRunState, host, [paused |-> FALSE, gameOver |-> FALSE])
    /\ hist' = hist
    /\ UNCHANGED <<w, blocks, queue, raysProcessed, segments, hitBlockId, cur, guard, step,
                   pc, order>>

NextHost == HostFrame \/ Render \/ EscKey \/ PauseClick \/ CardClick \/ RestartClick

SpecHost == InitHost /\ [][NextHost]_vars

-----------------------------------------------------------------------------
(* The lives: the fail line, the life-loss wipe, the auto-save of the frame  *)
(* loop and the reload of the saved run.  A body's row counts the drop steps *)
(* it has made; its bottom is on the fail line at row FailRow.  Time is in   *)
(* frames of 0.05 s (the cap of dtSec).                                      *)

FailRow == 3       \* the row whose bottom reaches failY
MaxIdsLives == 3   \* bodies spawned in a run
wipeDur == 7       \* 0.35 s
bannerDur == 19    \* 0.95 s
respiteCross == 7  \* 0.35 s
respiteWipe == 22  \* 1.1 s

NoFx == [on |-> FALSE, t |-> 0, cleared |-> FALSE]

createInitialLives ==
    [paused |-> FALSE, gameOver |-> FALSE, lives |-> livesStart, lifeLossFx |-> NoFx,
     respiteSec |-> 0, blocks |-> <<>>, nextBlockId |-> 1]

\* the head of stepSim: the life-loss effect.  frozen: stepSim returns here
lifeLossFxStep(st) ==
    IF ~st.lifeLossFx.on THEN [st |-> st, frozen |-> FALSE]
    ELSE
      LET t == st.lifeLossFx.t + 1
          clear == ~st.lifeLossFx.cleared /\ t >= wipeDur
          a == IF clear
               THEN [st EXCEPT !.lifeLossFx = [on |-> TRUE, t |-> t, cleared |-> TRUE],
                               !.blocks = <<>>,
                               !.respiteSec = Max2(@, respiteWipe)]
               ELSE [st EXCEPT !.lifeLossFx.t = t]
          b == IF t >= bannerDur THEN [a EXCEPT !.lifeLossFx = NoFx] ELSE a
      IN  [st |-> b, frozen |-> b.lifeLossFx.on /\ b.lifeLossFx.t < wipeDur]

dangerCount(st) == Cardinality({ i \in DOMAIN st.blocks : st.blocks[i].row >= FailRow - 2 })

\* respite, spawn, drop step and laser kill of a frame that is not frozen
boardStep(st, in) ==
    LET a == [st EXCEPT !.respiteSec = Max2(0, @ - 1)]
        allowSpawn == dangerCount(a) = 0 /\ a.respiteSec <= 0
        b == IF allowSpawn /\ in.spawnDue /\ Len(a.blocks) < maxBlocksEarly
             THEN [a EXCEPT !.blocks = Append(@, [id |-> a.nextBlockId, row |-> 0]),
                            !.nextBlockId = @ + 1]
             ELSE a
        c == IF in.dropDue
             THEN [b EXCEPT !.blocks = [i \in DOMAIN @ |-> [@[i] EXCEPT !.row = @ + 1]]]
             ELSE b
    IN  [c EXCEPT !.blocks = Without(@, in.kill)]

\* for (const b of s.blocks) if (bottom >= failY): the bodies at the line, in array order
Crossers(st) == SelectSeq(st.blocks, LAMBDA b : b.row >= FailRow)

failLineRows(st) ==
    IF Crossers(st) = <<>> THEN st
    ELSE
      LET lost == [st EXCEPT !.lives = Max2(0, @ - 1)]
      IN  IF lost.lives <= 0
          THEN [lost EXCEPT !.gameOver = TRUE, !.paused = TRUE]
          ELSE [lost EXCEPT !.lifeLossFx = [on |-> TRUE, t |-> 0, cleared |-> FALSE],
                            !.respiteSec = Max2(@, respiteCross)]

\* the run state just before the fail-line loop of a frame
beforeFailLine(st, in) ==
    LET h == lifeLossFxStep(st)
    IN  IF h.frozen THEN h ELSE [st |-> boardStep(h.st, in), frozen |-> FALSE]

stepSimLives(st, in) ==
    LET m == beforeFailLine(st, in)
    IN  IF m.frozen THEN m.st ELSE failLineRows(m.st)

LivesInputs(st) ==
    [spawnDue : {st.nextBlockId <= MaxIdsLives}, dropDue : BOOLEAN, kill : {0}, saveDue : BOOLEAN]
    \cup [spawnDue : {FALSE}, dropDue : {FALSE}, kill : Ids(st.blocks), saveDue : BOOLEAN]

\* saveGameState: the fields of SavedRunState
SavedRunState(st) ==
    [paused |-> st.paused, gameOver |-> st.gameOver, lives |-> st.lives,
     respiteSec |-> st.respiteSec, blocks |-> st.blocks, nextBlockId |-> st.nextBlockId]

\* loadGameState: Object.assign(createInitialRunState(), parsed); not in a chooser,
\* so paused = false
loadGameState(saved) ==
    [createInitialLives EXCEPT !.gameOver = saved.gameOver, !.lives = saved.lives,
                               !.respiteSec = saved.respiteSec, !.blocks = saved.blocks,
                               !.nextBlockId = saved.nextBlockId]

\* ghost: charged is the body whose crossing has cost a life and which the wipe has
\* not yet removed (0: none); twice: a life was taken for that body again; ranOver:
\* stepSim ran in a run that was over; jump: a frame took more than one life
NoLives == [charged |-> 0, twice |-> FALSE, ranOver |-> FALSE, jump |-> FALSE, lost |-> 0]

noteLives(h, st, in) ==
    LET m == beforeFailLine(st, in)
        nx == stepSimLives(st, in)
        struck == ~m.frozen /\ Crossers(m.st) # <<>>
        body == IF struck THEN Crossers(m.st)[1].id ELSE 0
        wiped == st.lifeLossFx.on /\ ~st.lifeLossFx.cleared /\ st.lifeLossFx.t + 1 >= wipeDur
        c == IF wiped THEN 0 ELSE h.charged
    IN  [charged |-> IF struck THEN body ELSE c,
         twice |-> h.twice \/ (struck /\ body = c),
         ranOver |-> h.ranOver \/ st.gameOver,
         jump |-> h.jump \/ (nx.lives < st.lives - 1),
         lost |-> IF nx.lives < st.lives THEN 1 ELSE 0]

InitLives ==
    /\ w = [name |-> "lives"]
    /\ s = createInitialLives
    /\ host = [saved |-> <<>>, charged |-> 0]
    /\ hist = NoLives
    /\ pc = "frame"
    /\ PassIdle

\* tick: if (!s.paused) stepSim(s, dtSec); every 2 s, if (!s.gameOver) saveGameState(s)
FrameLives ==
    /\ w.name = "lives"
    /\ \E in \in LivesInputs(s) :
         /\ s' = IF ~s.paused THEN stepSimLives(s, in) ELSE s
         /\ hist' = IF ~s.paused THEN noteLives(hist, s, in) ELSE [hist EXCEPT !.lost = 0]
         /\ host' = IF in.saveDue /\ ~s'.gameOver
                    THEN [saved |-> << SavedRunState(s') >>, charged |-> hist'.charged]
                    ELSE host
    /\ UNCHANGED <<w, blocks, queue, raysProcessed, segments, hitBlockId, cur, guard, step,
                   pc, order>>

\* the page is reloaded: stateRef starts from loadGameState() || createInitialRunState()
Reload ==
    /\ w.name = "lives"
    /\ s' = IF host.saved = <<>> THEN createInitialLives ELSE loadGameState(host.saved[1])
    /\ hist' = [hist EXCEPT !.charged = host.charged, !.lost = 0]
    /\ UNCHANGED <<w, blocks, queue, raysProcessed, segments, hitBlockId, cur, guard, step,
                   pc, order, host>>

\* restart, from the game-over overlay: a fresh run, clearGameState()
RestartLives ==
    /\ w.name = "lives"
    /\ s.gameOver
    /\ s' = createInitialLives
    /\ host' = [saved |-> <<>>, charged |-> 0]
    /\ hist' = [hist EXCEPT !.charged = 0, !.lost = 0]
    /\ UNCHANGED <<w, blocks, queue, raysProcessed, segments, hitBlockId, cur, guard, step,
                   pc, order>>

NextLives == FrameLives \/ Reload \/ RestartLives

SpecLives == InitLives /\ [][NextLives]_vars

-----------------------------------------------------------------------------
(* The local high scores: the stored top list, the game-over effect that     *)
(* decides whether to ask for a name, and the submit and skip buttons of the *)
(* name prompt.  An entry is [name, depth, ts]; host.now is Date.now().      *)

topN == 5
MaxDepth == 2     \* depths a run can end at
MaxNow == 2       \* the clock stops here
Names == {"", "AL"}

sanitizeName(raw) == IF raw = "" THEN "PLAYER" ELSE raw

\* the comparator of normalize: negative when a sorts before b
scoreCmp(a, b) == IF b.depth # a.depth THEN b.depth - a.depth ELSE a.ts - b.ts

\* Array.prototype.sort is stable: an entry goes behind every entry that does not
\* sort after it
InsertStable(sorted, e) ==
    LET keep == { i \in DOMAIN sorted : scoreCmp(sorted[i], e) <= 0 }
        k == IF keep = {} THEN 0 ELSE CHOOSE i \in keep : \A j \in keep : j <= i
    IN  SubSeq(sorted, 1, k) \o << e >> \o SubSeq(sorted, k + 1, Len(sorted))

RECURSIVE SortStable(_)
SortStable(list) ==
    IF list = <<>> THEN <<>>
    ELSE InsertStable(SortStable(SubSeq(list, 1, Len(list) - 1)), list[Len(list)])

normalize(list) ==
    LET mapped == [i \in DOMAIN list |->
                     [name |-> sanitizeName(list[i].name), depth |-> Max2(0, list[i].depth),
                      ts |-> Max2(0, list[i].ts)]]
        sorted == SortStable(mapped)
    IN  SubSeq(sorted, 1, Min2(topN, Len(sorted)))

qualifiesTop5(scores, depth) ==
    LET d == Max2(0, depth)
    IN  IF Len(scores) < topN THEN d > 0 ELSE d >= scores[Len(scores)].depth

NextEntry(name, depth, now) == [name |-> sanitizeName(name), depth |-> Max2(0, depth), ts |-> now]

addHighScore(scores, name, depth, now) == normalize(Append(scores, NextEntry(name, depth, now)))

\* ghost: the last call of addHighScore, its new entry and its result
NoCall == [entry |-> <<>>, result |-> <<>>, qualified |-> FALSE]

InitScores ==
    /\ w = [name |-> "scores"]
    /\ s = [highScores |-> <<>>, pendingScoreDepth |-> -1, showNamePrompt |-> FALSE]
    /\ host = [now |-> 0]
    /\ hist = NoCall
    /\ pc = "frame"
    /\ PassIdle

\* the effect on hud.gameOver: a run has ended at this depth
GameOverEffect ==
    /\ w.name = "scores"
    /\ s.pendingScoreDepth = -1
    /\ \E depth \in 0..MaxDepth :
         s' = [s EXCEPT !.pendingScoreDepth = depth,
                        !.showNamePrompt = qualifiesTop5(s.highScores, depth)]
    /\ UNCHANGED <<w, blocks, queue, raysProcessed, segments, hitBlockId, cur, guard, step,
                   pc, order, host, hist>>

\* the submit button of the name prompt
submitHighScore ==
    /\ w.name = "scores"
    /\ s.showNamePrompt
    /\ s.pendingScoreDepth # -1
    /\ \E name \in Names :
         LET next == addHighScore(s.highScores, name, s.pendingScoreDepth, host.now)
         IN  /\ s' = [s EXCEPT !.highScores = normalize(next), !.showNamePrompt = FALSE]
             /\ hist' = [entry |-> << NextEntry(name, s.pendingScoreDepth, host.now) >>,
                         result |-> next,
                         qualified |-> qualifiesTop5(s.highScores, s.pendingScoreDepth)]
    /\ UNCHANGED <<w, blocks, queue, raysProcessed, segments, hitBlockId, cur, guard, step,
                   pc, order, host>>

\* the skip button of the name prompt
skipHighScore ==
    /\ w.name = "scores"
    /\ s.showNamePrompt
    /\ s' = [s EXCEPT !.showNamePrompt = FALSE]
    /\ UNCHANGED <<w, blocks, queue, raysProcessed, segments, hitBlockId, cur, guard, step,
                   pc, order, host, hist>>

\* restart: hud.gameOver is false again, the effect clears the pending depth
RestartScores ==
    /\ w.name = "scores"
    /\ s.pendingScoreDepth # -1
    /\ s' = [s EXCEPT !.pendingScoreDepth = -1, !.showNamePrompt = FALSE]
    /\ UNCHANGED <<w, blocks, queue, raysProcessed, segments, hitBlockId, cur, guard, step,
                   pc, order, host, hist>>

\* time passes
ClockTick ==
    /\ w.name = "scores"
    /\ host.now < MaxNow
    /\ host' = [host EXCEPT !.now = @ + 1]
    /\ UNCHANGED <<w, blocks, queue, raysProcessed, segments, hitBlockId, cur, guard, step,
                   pc, order, s, hist>>

NextScores == GameOverEffect \/ submitHighScore \/ skipHighScore \/ RestartScores \/ ClockTick

SpecScores == InitScores /\ [][NextScores]_vars

-----------------------------------------------------------------------------
(* The board: where placeAabb puts a spawn, the drop step and the removal of *)
(* bodies, late in a run (timeSec >= 360: a spawn every 0.95 s, up to 11     *)
(* occupants).  Lengths are in px, times in 0.01 s; a frame is frameDt.  An  *)
(* action is stepSim over the frames up to and including the next one in     *)
(* which the spawn timer or the drop timer runs out.  A run starts on the    *)
(* board a wipe leaves.                                                      *)

viewWidth == 360
viewHeight == 640
placePad == 18
placeGap == 16
baseLift == 28            \* baseY = -hPx - 28
backlogFloor == 260
failY == viewHeight - 18 - 14 - 8
frameDt == 5              \* dtSec at its cap of 0.05 s
spawnEveryLate == 95
spawnRetry == 25
spawnHold == 18
maxBlocksLate == 11
dropBase == 120
dropMax == 300
wipeSpawnTimer == 120
MaxBoardSpawns == 5       \* bodies spawned in a run

maxBacklog == Max2(backlogFloor, (viewHeight * 65) \div 100)

\* bounding boxes of the shapes L4 and I4, in px
BoardShapes == { [w |-> 2 * cellSize, h |-> 3 * cellSize], [w |-> 4 * cellSize, h |-> cellSize] }

\* clamp(Math.random() * (width - wPx), xMin, xMax): both ends of the clamp
\* (the low end has probability pad / (width - wPx))
PlaceXs(wPx) == { placePad, viewWidth - wPx - placePad }

blockWorldAabb(b) == [minX |-> b.x, minY |-> b.y, maxX |-> b.x + b.w, maxY |-> b.y + b.h]

intersects(a, b) == a.minX < b.maxX /\ a.maxX > b.minX /\ a.minY < b.maxY /\ a.maxY > b.minY

collidesAny(cand, st) == \E i \in DOMAIN st.blocks : intersects(cand, blockWorldAabb(st.blocks[i]))

\* one attempt of placeAabb at x: the candidate above the topmost occupant that
\* overlaps it horizontally, not further up than the backlog allows
placeAttempt(st, wPx, hPx, x) ==
    LET baseY == 0 - hPx - baseLift
        over == { i \in DOMAIN st.blocks :
                    x < st.blocks[i].x + st.blocks[i].w /\ x + wPx > st.blocks[i].x }
        yRaw == IF over = {} THEN baseY
                ELSE Min2(baseY, MinOf({ st.blocks[i].y : i \in over }) - (hPx + placeGap))
        y == Max2(0 - maxBacklog - hPx, yRaw)
    IN  [x |-> x, y |-> y, overlapCount |-> Cardinality(over), clearance |-> baseY - y,
         clear |-> ~collidesAny([minX |-> x, minY |-> y, maxX |-> x + wPx, maxY |-> y + hPx], st)]

\* the positions placeAabb can return when its first random x is x0 and its 22
\* attempts draw the xs of tries: a clear candidate whose score (100 times
\* -overlapCount * 3 - clearance * 0.01, plus less than 15) can be the best, or,
\* with no clear candidate, x0 above the topmost occupant, again clamped
placeAabb(st, wPx, hPx, x0, tries) ==
    LET found == { c \in { placeAttempt(st, wPx, hPx, x) : x \in tries } : c.clear }
        base(c) == 0 - 300 * c.overlapCount - c.clearance
        baseY == 0 - hPx - baseLift
        yRaw == IF st.blocks = <<>> THEN baseY
                ELSE Min2(baseY, MinOf({ st.blocks[i].y : i \in DOMAIN st.blocks }) - (hPx + placeGap))
    IN  IF found # {}
        THEN { [x |-> c.x, y |-> c.y] : c \in { c \in found : \A o \in found : base(c) + 15 > base(o) } }
        ELSE { [x |-> x0, y |-> Max2(0 - maxBacklog - hPx, yRaw)] }

spawnBlockAt(st, shape, placed) ==
    [st EXCEPT !.blocks = Append(@, [id |-> st.nextBlockId, x |-> placed.x, y |-> placed.y,
                                     w |-> shape.w, h |-> shape.h]),
               !.nextBlockId = @ + 1]

boardDanger(st) ==
    Cardinality({ i \in DOMAIN st.blocks : st.blocks[i].y + st.blocks[i].h >= failY - 2 * cellSize })

\* the frames in which nothing but the timers moves, before the next expiry
QuietFrames(st) ==
    LET need(t) == IF t <= frameDt THEN 0 ELSE (t - 1) \div frameDt
    IN  Min2(need(st.spawnTimer), need(st.dropTimerSec))

\* the frames an action covers: one when the laser destroys a body in it, else the
\* quiet ones and the one of the expiry
FramesOf(st, kill) == IF kill # 0 THEN 1 ELSE QuietFrames(st) + 1

\* the timers after n frames of which the first n - 1 are quiet
timersAfter(st, n) ==
    [st EXCEPT !.spawnTimer = IF boardDanger(st) > 0
                              THEN Min2(@ - frameDt * n, spawnHold - frameDt * (n - 1))
                              ELSE @ - frameDt * n,
               !.dropTimerSec = @ - frameDt * n]

spawnDueAfter(st, n) ==
    /\ boardDanger(st) = 0
    /\ timersAfter(st, n).spawnTimer <= 0
    /\ Len(st.blocks) < maxBlocksLate

\* n frames of stepSim, the last of which spawns (shape and position drawn), makes
\* the drop step, loses the body the laser destroys and looks at the fail line
stepSimBoard(st, in) ==
    LET n == FramesOf(st, in.kill)
        a == timersAfter(st, n)
        b == IF boardDanger(st) = 0 /\ a.spawnTimer <= 0
             THEN IF Len(a.blocks) < maxBlocksLate
                  THEN [spawnBlockAt(a, in.shape[1], in.placed) EXCEPT !.spawnTimer = spawnEveryLate]
                  ELSE [a EXCEPT !.spawnTimer = spawnRetry]
             ELSE a
        c == IF b.dropTimerSec <= 0
             THEN [b EXCEPT !.dropTimerSec = b.dropIntervalSec - ((0 - b.dropTimerSec) % b.dropIntervalSec),
                            !.blocks = [i \in DOMAIN @ |-> [@[i] EXCEPT !.y = @ + cellSize]]]
             ELSE b
        d == [c EXCEPT !.blocks = Without(@, in.kill)]
    IN  IF \E i \in DOMAIN d.blocks : d.blocks[i].y + d.blocks[i].h >= failY
        THEN [d EXCEPT !.blocks = <<>>, !.spawnTimer = Max2(@, wipeSpawnTimer),
                       !.dropTimerSec = d.dropIntervalSec]
        ELSE d

\* the positions a spawn of this shape can get
Placements(st, sh) ==
    UNION { placeAabb(st, sh.w, sh.h, x0, tries) :
              x0 \in PlaceXs(sh.w), tries \in (SUBSET PlaceXs(sh.w)) \ {{}} }

\* what the frames draw: the body the laser destroys (0: none) and, when a spawn
\* is due, its shape and position
BoardInputs(st) ==
    UNION { IF spawnDueAfter(st, FramesOf(st, k))
            THEN UNION { { [shape |-> << sh >>, placed |-> p, kill |-> k] :
                             p \in Placements(timersAfter(st, FramesOf(st, k)), sh) } :
                         sh \in IF st.nextBlockId > MaxBoardSpawns THEN {} ELSE BoardShapes }
            ELSE { [shape |-> <<>>, placed |-> <<>>, kill |-> k] } :
            k \in Ids(st.blocks) \cup {0} }

InitBoard ==
    /\ w = [name |-> "board"]
    /\ \E interval \in {dropBase, dropMax} :
         s = [blocks |-> <<>>, nextBlockId |-> 1, spawnTimer |-> wipeSpawnTimer,
              dropTimerSec |-> interval, dropIntervalSec |-> interval]
    /\ host = <<>>
    /\ hist = <<>>
    /\ pc = "frame"
    /\ PassIdle

FrameBoard ==
    /\ w.name = "board"
    /\ \E in \in BoardInputs(s) : s' = stepSimBoard(s, in)
    /\ UNCHANGED <<w, blocks, queue, raysProcessed, segments, hitBlockId, cur, guard, step,
                   pc, order, host, hist>>

NextBoard == FrameBoard

SpecBoard == InitBoard /\ [][NextBoard]_vars

-----------------------------------------------------------------------------
(* Properties of the run.                                                   *)

\* the wall hits of rays up and down the column, along a side track and along a
\* diagonal, in an empty arena
WallHits ==
    { raycastSceneWalls(Tick("open", {}, InitialStats), tr, o, d, 1, 18892, 0) :
        tr \in {Column, SideTrack(11, 90, 1), SideTrack(11, 45, 1)},
        o \in {800, 3000}, d \in {1, -1} }

Distinct(arr) == \A i, j \in DOMAIN arr : i # j => arr[i].id # arr[j].id

\* C22: wall hits carry one of the four fixed negative ids (left -1, right -2, top -3,
\* bottom -4); every id given to a body or a feature, over any sequence of spawns, is
\* a positive integer below the counter it came from; no two live bodies and no two
\* live features share an id.
C22_Ids ==
    /\ \A h \in WallHits : h.kind = "wall" => h.id \in {-1, -2, -3, -4}
    /\ raycastSceneWalls(Tick("open", {}, InitialStats), Column, 800, 1, 1, 18892, 0).id = -3
    /\ raycastSceneWalls(Tick("open", {}, InitialStats), Column, 800, -1, 1, 18892, 0).id = -4
    /\ raycastSceneWalls(Tick("open", {}, InitialStats), SideTrack(11, 90, 1), 800, -1, 1, 18892, 0).id = -1
    /\ raycastSceneWalls(Tick("open", {}, InitialStats), SideTrack(11, 90, 1), 800, 1, 1, 18892, 0).id = -2
    /\ w.name = "spawn" =>
         /\ \A i \in DOMAIN s.blocks : s.blocks[i].id \in 1..(s.nextBlockId - 1)
         /\ \A i \in DOMAIN s.features : s.features[i].id \in 1..(s.nextFeatureId - 1)
         /\ Distinct(s.blocks)
         /\ Distinct(s.features)

\* two live bodies beside two live features, one of them left by the splitter
C22_Witness ==
    /\ w.name = "spawn"
    /\ Len(s.blocks) >= 2
    /\ Len(s.features) >= 2
    /\ hist.splitter

\* C23: the host never invokes the engine on a paused tick, and while the upgrade
\* chooser is open (levelUpActive) the run stays paused under every interleaving of
\* frames, Esc presses and pause-button clicks: only choosing an upgrade resumes it.
C23_ChooserKeepsPaused ==
    w.name = "host" =>
        /\ ~hist.ranPaused
        /\ s.levelUpActive => s.paused
        /\ hist.resumedBy = "none"

\* C28: over any run the first 15 spawns are bodies, and at least 3 bodies are
\* spawned between any two consecutive features (mirror, prism or gravity well)
\* that appear on the board.
C28_FeatureSpacing ==
    w.name = "spawn" => (~hist.early /\ ~hist.close)

\* C26: lives stay within 0..3; a crossing of the fail line costs exactly one life,
\* and no second life is taken for the same crossing body before the board has been
\* wiped, whatever the interleaving of frames, auto-saves and reloads of the saved
\* run; the run is over (paused, stepSim no longer run) exactly when lives are 0.
C26_OneLifePerCrossing ==
    w.name = "lives" =>
        /\ s.lives \in 0..livesStart
        /\ ~hist.jump
        /\ ~hist.twice
        /\ s.gameOver <=> s.lives = 0
        /\ s.gameOver => s.paused
        /\ ~hist.ranOver

\* C30: whenever qualifiesTop5(scores, depth) is true for the stored list, the list
\* that addHighScore(scores, {name, depth}) returns contains the new entry.
C30_QualifiedIsStored ==
    (w.name = "scores" /\ hist.entry # <<>> /\ hist.qualified) =>
        \E i \in DOMAIN hist.result : hist.result[i] = hist.entry[1]

\* C27: no two occupants of the board ever have intersecting bounding boxes: a
\* spawn is placed clear of every occupant, and the drop step moves all of them
\* by the same distance.
C27_NoOverlap ==
    w.name = "board" =>
        \A i, j \in DOMAIN s.blocks :
            i # j => ~intersects(blockWorldAabb(s.blocks[i]), blockWorldAabb(s.blocks[j]))

====
